---- MODULE Spec2Model ----
(***************************************************************************)
(* A model of the clone pipeline of vietnguyen2358/full-stack-take-home:   *)
(*   - services/deployer.py : deploy_to_sandbox, build_with_retry          *)
(*   - services/ai.py       : parse_multi_file_output, the section agents, *)
(*                            generate_clone_parallel, fix_build_errors    *)
(*   - services/scraper.py  : scrape_page and its extraction steps         *)
(*   - routes/clone.py      : the /clone and /clones/{id}/redeploy event   *)
(*                            streams                                      *)
(*                                                                         *)
(* Each subsystem keeps its state in one record variable whose fields      *)
(* carry the names of the Python locals they model.  A subsystem that a    *)
(* specification does not exercise stays Idle.                             *)
(*                                                                         *)
(* Strings are sequences of atoms (short string pieces): concatenation is  *)
(* \o, str.endswith is a suffix test, and a path such as                   *)
(* "components/Hero.tsx" is <<"components/", "Hero", ".tsx">>.             *)
(***************************************************************************)
EXTENDS Integers, Sequences, FiniteSets, TLC

VARIABLES bwr,   \* build_with_retry         (services/deployer.py)
          dts,   \* deploy_to_sandbox        (services/deployer.py)
          pmo,   \* parse_multi_file_output  (services/ai.py)
          gc,    \* generate_clone[_parallel](services/ai.py)
          es,    \* event_stream / stream    (routes/clone.py)
          sp     \* scrape_page              (services/scraper.py)

vars == <<bwr, dts, pmo, gc, es, sp>>

Idle == [pc |-> "idle"]

None == "None"

(***************************************************************************)
(* Generic helpers on sequences (Python lists and strings).                *)
(***************************************************************************)
Range(s) == {s[i] : i \in 1..Len(s)}

SeqsUpTo(S, n) == UNION {[1..k -> S] : k \in 0..n}

\* s.endswith(t)
EndsWith(s, t) ==
    /\ Len(t) <= Len(s)
    /\ SubSeq(s, Len(s) - Len(t) + 1, Len(s)) = t

\* the first of a set of indices, 0 when the set is empty (a search that fails)
FirstOf(I) == IF I = {} THEN 0 ELSE CHOOSE i \in I : \A j \in I : i <= j

\* all orderings, without repetition, of the elements of the set S: list(set(..))
Orderings(S) ==
    {q \in [1..Cardinality(S) -> S] : \A i, j \in 1..Cardinality(S) : q[i] = q[j] => i = j}

(***************************************************************************)
(* Bounds of the model.                                                    *)
(***************************************************************************)
\* the model call of a fix returns one of the contents 0..MaxContent
MaxContent == 1
\* an error text holds at most MaxErrLines lines
MaxErrLines == 1
\* extra_deps holds at most MaxDeps names
MaxDeps == 2
\* a dependency declaration holds at most MaxPayload characters
MaxPayload == 3
\* a page is at most MaxViewports viewport heights tall
MaxViewports == 2
\* generate_clone is given at most MaxScreenshots screenshots
MaxScreenshots == 5
\* the heartbeat of one build attempt logs at most MaxHeartbeats messages
MaxHeartbeats == 1

(***************************************************************************)
(* services/deployer.py : build_with_retry                                 *)
(***************************************************************************)
MAX_BUILD_ATTEMPTS == 3

\* exit codes a build may return: success, compile errors, signal kills
ExitCodes == {0, 1, 127, 128, 137}

\* what one build invocation did: it timed out, or it returned exit_code
Outcome(t, e) == [timed_out |-> t, exit_code |-> e]

PagePath == <<"app/", "page", ".tsx">>
HeroPath == <<"components/", "Hero", ".tsx">>

\* generated_files: an insertion-ordered dict, a sequence of (path, content)
File(p, c) == [path |-> p, content |-> c]

Keys(files) == {files[i].path : i \in 1..Len(files)}

Get(files, p) == (CHOOSE i \in 1..Len(files) : files[i].path = p)

AsDict(files) == [p \in Keys(files) |-> files[Get(files, p)].content]

InitialFileSets ==
    { <<File(PagePath, 0)>>,
      <<File(PagePath, 0), File(HeroPath, 0)>>,
      <<File(HeroPath, 0), File(PagePath, 0)>> }

InitialDeps == { <<>>, <<"d1">>, <<"d1", "d2">>, <<"d2", "d1">>, <<"d1", "d1">> }

\* What re.search(r'[./]*((?:src/|app/|components/)[\w/.-]+\.tsx)', line)
\* captures on one line of the error text: None, or group 1.
Captures ==
    { None,
      PagePath,
      <<"src/", "app/", "page", ".tsx">>,
      HeroPath,
      <<"components/", "Nav", ".tsx">> }

ErrorTexts == SeqsUpTo(Captures, MaxErrLines)

\* fix_build_errors, lines 1381-1388: the first line with a match decides
FailingFile(error_text) ==
    LET i == FirstOf({k \in 1..Len(error_text) : error_text[k] # None})
    IN  IF i = 0 THEN None ELSE error_text[i]

\* fix_build_errors, lines 1390-1396: the first key, in dict order, that matches
MatchedKey(generated_files, failing_file) ==
    LET Match(f) == \/ f.path = failing_file
                    \/ EndsWith(f.path, failing_file)
                    \/ EndsWith(failing_file, f.path)
        i == FirstOf({k \in 1..Len(generated_files) : Match(generated_files[k])})
    IN  IF failing_file = None \/ i = 0 THEN None ELSE generated_files[i].path

\* mutant: the answer of the model replaces every content
WithContentAll(generated_files, key, c) ==
    [i \in 1..Len(generated_files) |-> File(generated_files[i].path, c)]

\* fix_build_errors, lines 1400-1403: dict(generated_files) with one content replaced
WithContent(generated_files, key, c) ==
    [i \in 1..Len(generated_files) |->
        IF generated_files[i].path = key THEN File(key, c) ELSE generated_files[i]]

\* mutant: only the first file of the dict is uploaded
UploadFirstOnly(fs, files) ==
    [p \in (DOMAIN fs) \cup Keys(files) |->
        IF p = files[1].path THEN files[1].content
        ELSE IF p \in DOMAIN fs THEN fs[p] ELSE AsDict(files)[p]]

\* sandbox.fs.upload_file of every generated file: the sandbox's copy is overwritten
Upload(fs, files) ==
    [p \in (DOMAIN fs) \cup Keys(files) |->
        IF p \in Keys(files) THEN AsDict(files)[p] ELSE fs[p]]

BwrStart(files, deps) ==
    [ pc              |-> "loop",
      attempt         |-> 1,
      build_ok        |-> FALSE,
      timed_out       |-> FALSE,
      generated_files |-> files,
      extra_deps      |-> deps,
      error_text      |-> <<>>,
      matched_key     |-> None,
      \* the sandbox, as deploy_to_sandbox left it: the files uploaded, and one
      \* npm install run, for the names of deps
      sandbox_fs      |-> AsDict(files),
      installs        |-> 1,
      installed_for   |-> deps,
      \* the commands executing in the sandbox
      running         |-> {},
      \* the heartbeat of the current attempt: the flag its loop reads, where
      \* its task stands, the messages it logged, whether the outcome message of
      \* the attempt is logged, and whether a heartbeat message came after one
      heartbeat_active |-> FALSE,
      heartbeat_task  |-> "none",
      heartbeats      |-> 0,
      outcome_logged  |-> FALSE,
      late_heartbeat  |-> FALSE,
      \* what the collaborators saw
      exits           |-> <<>>,
      builds          |-> 0,
      reuploads       |-> 0,
      fix_calls       |-> 0,
      model_calls     |-> 0,
      fix_raised      |-> FALSE,
      upload_raised   |-> FALSE,
      built_files     |-> <<>>,
      built_fs        |-> <<>>,
      built_deps      |-> <<>> ]

\* deploy_to_sandbox passes over a timeout of the install (lines 178-184):
\* asyncio.wait_for gives up the wait, the thread of asyncio.to_thread and
\* the command in the sandbox go on
BwrInit ==
    {[BwrStart(f, d) EXCEPT !.running = r] :
        f \in InitialFileSets, d \in InitialDeps, r \in {{}, {"npm install"}}}

\* mutant: range(1, MAX_BUILD_ATTEMPTS), one iteration short
BwrNextIterationShort(s) ==
    IF s.attempt < MAX_BUILD_ATTEMPTS - 1
    THEN [s EXCEPT !.pc = "loop", !.attempt = s.attempt + 1]
    ELSE [s EXCEPT !.pc = "returned"]

\* range(1, MAX_BUILD_ATTEMPTS + 1): the next iteration, or the end of the loop
BwrNextIteration(s) ==
    IF s.attempt < MAX_BUILD_ATTEMPTS
    THEN [s EXCEPT !.pc = "loop", !.attempt = s.attempt + 1]
    ELSE [s EXCEPT !.pc = "returned"]

\* lines 208-244: re-upload every file (attempt > 1), then start the build
BwrBuildStart ==
    /\ bwr.pc = "loop"
    /\ LET fs == IF bwr.attempt > 1
                 THEN Upload(bwr.sandbox_fs, bwr.generated_files)
                 ELSE bwr.sandbox_fs
       IN bwr' = [bwr EXCEPT !.pc = "build",
                             !.running = @ \cup {"next build"},
                             !.heartbeat_active = TRUE,
                             !.heartbeat_task = "sleep",
                             !.heartbeats = 0,
                             !.outcome_logged = FALSE,
                             !.sandbox_fs = fs,
                             !.reuploads = IF bwr.attempt > 1 THEN @ + 1 ELSE @,
                             !.builds = @ + 1,
                             !.built_files = bwr.generated_files,
                             !.built_fs = fs,
                             !.built_deps = bwr.extra_deps]
    /\ UNCHANGED <<dts, pmo, gc, es, sp>>

\* lines 213-218: an upload of the re-upload raises; nothing catches it
BwrUploadRaises ==
    /\ bwr.pc = "loop"
    /\ bwr.attempt > 1
    /\ bwr' = [bwr EXCEPT !.pc = "raised", !.upload_raised = TRUE,
                          !.reuploads = @ + 1]
    /\ UNCHANGED <<dts, pmo, gc, es, sp>>

\* lines 254-256, the finally of the build: the flag is cleared and the
\* cancellation of the task is requested
HeartbeatCancel(s) ==
    [s EXCEPT !.heartbeat_active = FALSE,
              !.heartbeat_task = IF @ = "sleep" THEN "cancelling" ELSE @]

\* lines 229-234: asyncio.sleep(5) of the heartbeat ends and the message goes
\* to on_log
BwrHeartbeat ==
    /\ bwr.heartbeat_task = "sleep"
    /\ bwr.heartbeats < MaxHeartbeats
    /\ bwr' = IF bwr.heartbeat_active
              THEN [bwr EXCEPT !.heartbeats = @ + 1,
                               !.late_heartbeat = @ \/ bwr.outcome_logged]
              ELSE [bwr EXCEPT !.heartbeat_task = "done"]
    /\ UNCHANGED <<dts, pmo, gc, es, sp>>

\* line 256: the cancelled task gets its CancelledError and ends
BwrHeartbeatEnds ==
    /\ bwr.heartbeat_task = "cancelling"
    /\ bwr' = [bwr EXCEPT !.heartbeat_task = "done"]
    /\ UNCHANGED <<dts, pmo, gc, es, sp>>

\* lines 245-252: asyncio.TimeoutError from _sandbox_exec: the command is not
\* stopped; the handler awaits on_log with the timeout message
BwrBuildTimesOut ==
    /\ bwr.pc = "build"
    /\ bwr' = [bwr EXCEPT !.pc = "timeout_log", !.timed_out = TRUE,
                          !.exits = Append(@, Outcome(TRUE, 0)),
                          !.outcome_logged = TRUE]
    /\ UNCHANGED <<dts, pmo, gc, es, sp>>

\* mutant: a timeout is handled like a failed build and goes on to the next attempt
BwrBuildTimeoutGoesOn ==
    /\ bwr.pc = "timeout_log"
    /\ bwr' = BwrNextIteration(HeartbeatCancel(bwr))
    /\ UNCHANGED <<dts, pmo, gc, es, sp>>

\* lines 253-257: on_log has returned: break, through the finally
BwrBuildTimeout ==
    /\ bwr.pc = "timeout_log"
    /\ bwr' = [HeartbeatCancel(bwr) EXCEPT !.pc = "returned"]
    /\ UNCHANGED <<dts, pmo, gc, es, sp>>

\* lines 261-266: exit code 0: build_ok = True, break
BwrBuildSucceeds ==
    /\ bwr.pc = "build"
    /\ bwr' = [HeartbeatCancel(bwr) EXCEPT
                          !.pc = "returned", !.build_ok = TRUE,
                          !.outcome_logged = TRUE,
                          !.running = @ \ {"next build"},
                          !.exits = Append(@, Outcome(FALSE, 0))]
    /\ UNCHANGED <<dts, pmo, gc, es, sp>>

\* mutant: no check of exit_code >= 128 (the loop as routes/clone.py writes it)
BwrAfterFailureNoSignalCheck(s, exit_code, error_text) ==
    IF s.attempt < MAX_BUILD_ATTEMPTS
    THEN LET key == MatchedKey(s.generated_files, FailingFile(error_text))
             called == [s EXCEPT !.fix_calls = @ + 1, !.error_text = error_text,
                                 !.matched_key = key]
         IN  IF key = None
             THEN BwrNextIteration(called)
             ELSE [called EXCEPT !.pc = "fix", !.model_calls = @ + 1]
    ELSE BwrNextIteration(s)

\* mutant: the fix is asked for after the last attempt too
BwrAfterFailureFixesLast(s, exit_code, error_text) ==
    IF exit_code >= 128 /\ s.attempt < MAX_BUILD_ATTEMPTS
    THEN [s EXCEPT !.pc = "returned"]
    ELSE LET key == MatchedKey(s.generated_files, FailingFile(error_text))
             called == [s EXCEPT !.fix_calls = @ + 1, !.error_text = error_text,
                                 !.matched_key = key]
         IN  IF key = None
             THEN BwrNextIteration(called)
             ELSE [called EXCEPT !.pc = "fix", !.model_calls = @ + 1]

\* lines 291-297 and 313-314 once the build failed with exit_code and error_text
BwrAfterFailure(s, exit_code, error_text) ==
    IF s.attempt < MAX_BUILD_ATTEMPTS
    THEN IF exit_code >= 128
         THEN [s EXCEPT !.pc = "returned"]
         ELSE \* lines 298-303: fix_build_errors is called; it returns at once when
              \* no generated file matches, and awaits the model otherwise
              LET key == MatchedKey(s.generated_files, FailingFile(error_text))
                  called == [s EXCEPT !.fix_calls = @ + 1, !.error_text = error_text,
                                      !.matched_key = key]
              IN  IF key = None
                  THEN BwrNextIteration(called)
                  ELSE [called EXCEPT !.pc = "fix", !.model_calls = @ + 1]
    ELSE BwrNextIteration(s)

\* lines 259-314: the build returns a non-zero exit code
BwrBuildFails ==
    /\ bwr.pc = "build"
    /\ \E exit_code \in ExitCodes \ {0}, error_text \in ErrorTexts :
         LET s == BwrAfterFailure([HeartbeatCancel(bwr) EXCEPT
                                      !.exits = Append(@, Outcome(FALSE, exit_code)),
                                      !.outcome_logged = TRUE,
                                      !.running = @ \ {"next build"}],
                                  exit_code, error_text)
         IN  \* line 304: list(set(extra_deps + fix_deps)), fix_deps = []
             IF s.fix_calls > bwr.fix_calls /\ s.pc = "loop"
             THEN \E deps \in Orderings(Range(bwr.extra_deps)) :
                      bwr' = [s EXCEPT !.extra_deps = deps]
             ELSE bwr' = s
    /\ UNCHANGED <<dts, pmo, gc, es, sp>>

\* mutant: the fix hands back a dependency of its own
BwrFixReturnsNewDep ==
    /\ bwr.pc = "fix"
    /\ \E c \in 0..MaxContent :
         bwr' = BwrNextIteration(
                   [bwr EXCEPT !.generated_files = WithContent(@, bwr.matched_key, c),
                               !.extra_deps = Append(@, "d3")])
    /\ UNCHANGED <<dts, pmo, gc, es, sp>>

\* ai.py 1351-1365 and 1400-1403, deployer.py 301-307: the model answers; the
\* matched file gets the cleaned answer (or keeps its content on an empty answer)
BwrFixReturns ==
    /\ bwr.pc = "fix"
    /\ \E c \in 0..MaxContent, deps \in Orderings(Range(bwr.extra_deps)) :
         bwr' = BwrNextIteration(
                   [bwr EXCEPT !.generated_files = WithContent(@, bwr.matched_key, c),
                               !.extra_deps = deps])
    /\ UNCHANGED <<dts, pmo, gc, es, sp>>

\* mutant: the exception of the fix call is swallowed and the loop goes on
BwrFixRaisesGoesOn ==
    /\ bwr.pc = "fix"
    /\ bwr' = BwrNextIteration([bwr EXCEPT !.fix_raised = TRUE])
    /\ UNCHANGED <<dts, pmo, gc, es, sp>>

\* lines 308-312: the fix call raises: log and break
BwrFixRaises ==
    /\ bwr.pc = "fix"
    /\ bwr' = [bwr EXCEPT !.pc = "returned", !.fix_raised = TRUE]
    /\ UNCHANGED <<dts, pmo, gc, es, sp>>

\* lines 42-50: a command whose caller stopped waiting ends in the sandbox
BwrStalledEnds ==
    /\ \E c \in bwr.running :
           /\ c = "next build" => bwr.pc # "build"
           /\ bwr' = [bwr EXCEPT !.running = @ \ {c}]
    /\ UNCHANGED <<dts, pmo, gc, es, sp>>

NextBuild ==
    \/ BwrBuildStart
    \/ BwrStalledEnds
    \/ BwrHeartbeat
    \/ BwrHeartbeatEnds
    \/ BwrBuildTimesOut
    \/ BwrUploadRaises
    \/ BwrBuildTimeout
    \/ BwrBuildSucceeds
    \/ BwrBuildFails
    \/ BwrFixReturns
    \/ BwrFixRaises

InitBuild ==
    /\ bwr \in BwrInit
    /\ dts = Idle /\ pmo = Idle /\ gc = Idle /\ es = Idle /\ sp = Idle

SpecBuild == InitBuild /\ [][NextBuild]_vars

(***************************************************************************)
(* services/deployer.py : deploy_to_sandbox                                *)
(***************************************************************************)
\* The characters a dependency name is made of.  "U+00E9" stands for a
\* non-ASCII letter, which Python's \w matches in a str pattern.
DepChars == {"a", "@", "-", "_", ";", "\n", "U+00E9"}

\* [@a-zA-Z0-9]
FirstClass == {"a", "@"}

\* [\w./@-]
RestClass == {"a", "_", "U+00E9", ".", "/", "@", "-"}

\* mutant: the check accepts every non-empty name
IsSafeDepAny(d) == Len(d) >= 1

\* line 165: re.match(r'^[@a-zA-Z0-9][\w./@-]*$', d); "$" matches at the end of
\* the string and also just before a newline that ends the string
IsSafeDep(d) ==
    /\ Len(d) >= 1
    /\ d[1] \in FirstClass
    /\ LET last == IF Len(d) >= 2 /\ d[Len(d)] = "\n" THEN Len(d) - 1 ELSE Len(d)
       IN  \A i \in 2..last : d[i] \in RestClass

\* [d for d in extra_deps if ...]
SelectDeps(deps) ==
    LET F[i \in 0..Len(deps)] ==
            IF i = 0 THEN <<>>
            ELSE IF IsSafeDep(deps[i]) THEN Append(F[i - 1], deps[i]) ELSE F[i - 1]
    IN  F[Len(deps)]

\* ' '.join(names), as one string
JoinSpace(names) ==
    LET F[i \in 0..Len(names)] ==
            IF i = 0 THEN <<>>
            ELSE IF i = 1 THEN names[1]
            ELSE F[i - 1] \o <<" ">> \o names[i]
    IN  F[Len(names)]

NpmPrefix == <<"cd ", "/home/daytona/app", " && npm install">>

NpmExtra == <<" && npm install ">>

\* lines 163-169
NpmCmd(extra_deps) ==
    LET safe_deps == IF extra_deps # <<>> THEN SelectDeps(extra_deps) ELSE <<>>
    IN  IF safe_deps # <<>>
        THEN NpmPrefix \o NpmExtra \o JoinSpace(safe_deps)
        ELSE NpmPrefix

\* the names a caller may request: plain, scoped, with an underscore, with a
\* shell metacharacter, with a trailing newline, with a non-ASCII letter, with a
\* leading dash, and empty
DepNames ==
    { <<"a">>, <<"@", "a">>, <<"a", "_">>, <<"a", ";">>, <<";">>,
      <<"a", "\n">>, <<"a", "U+00E9">>, <<"-", "a">>, <<"a", "\n", "a">>, <<>> }

\* str(Path(gen_path).parent) of the generated files a caller may pass: "."
\* for a file at the top, a plain directory, a directory with a shell
\* metacharacter, a directory with a quote
ParentDirs == { <<".">>, <<"a">>, <<"a", ";">>, <<"a", "'">> }

\* lines 125-130: the directories of the mkdir command that come from the
\* generated paths; each goes into the command between single quotes
MkdirParents(parents) == {d \in parents : d # <<>> /\ d # <<".">>}

DtsStart(sandbox, deps, parents) ==
    [ pc              |-> IF sandbox = None THEN "create" ELSE "mkdir",
      sandbox         |-> sandbox,
      parents         |-> parents,
      mkdir_parents   |-> {},
      extra_deps      |-> deps,
      safe_deps       |-> <<>>,
      npm_cmd         |-> <<>>,
      execs           |-> <<>>,
      install_timeout |-> FALSE,
      result          |-> None ]

DtsInit ==
    {DtsStart(sb, d, ps) : sb \in {None, "pre-created"}, d \in SeqsUpTo(DepNames, MaxDeps),
                           ps \in {{<<".">>}, {<<".">>, <<"a">>}, ParentDirs}}

\* lines 114-120: no sandbox was passed in: create one
DtsCreateSandbox ==
    /\ dts.pc = "create"
    /\ \/ dts' = [dts EXCEPT !.pc = "returned", !.result = None]
       \/ dts' = [dts EXCEPT !.pc = "mkdir", !.sandbox = "created"]
       \/ dts' = [dts EXCEPT !.pc = "raised"]
    /\ UNCHANGED <<bwr, pmo, gc, es, sp>>

\* lines 124-131: mkdir -p under a timeout that nothing catches
DtsMkdir ==
    /\ dts.pc = "mkdir"
    /\ \/ dts' = [dts EXCEPT !.pc = "upload", !.execs = Append(@, "mkdir"),
                            !.mkdir_parents = MkdirParents(dts.parents)]
       \/ dts' = [dts EXCEPT !.pc = "raised", !.execs = Append(@, "mkdir"),
                            !.mkdir_parents = MkdirParents(dts.parents)]
    /\ UNCHANGED <<bwr, pmo, gc, es, sp>>

\* lines 133-176: upload the files, then build the npm command and start it
DtsUpload ==
    /\ dts.pc = "upload"
    /\ \/ dts' = [dts EXCEPT !.pc = "install",
                            !.safe_deps = IF dts.extra_deps # <<>>
                                          THEN SelectDeps(dts.extra_deps) ELSE <<>>,
                            !.npm_cmd = NpmCmd(dts.extra_deps),
                            !.execs = Append(@, "npm install")]
       \/ dts' = [dts EXCEPT !.pc = "raised"]
    /\ UNCHANGED <<bwr, pmo, gc, es, sp>>

\* lines 178-190: the install returns, or times out and is passed over
DtsInstall ==
    /\ dts.pc = "install"
    /\ \/ dts' = [dts EXCEPT !.pc = "returned", !.result = dts.sandbox]
       \/ dts' = [dts EXCEPT !.pc = "returned", !.result = dts.sandbox,
                            !.install_timeout = TRUE]
       \/ dts' = [dts EXCEPT !.pc = "raised"]
    /\ UNCHANGED <<bwr, pmo, gc, es, sp>>

NextDeploy ==
    \/ DtsCreateSandbox
    \/ DtsMkdir
    \/ DtsUpload
    \/ DtsInstall

InitDeploy ==
    /\ dts \in DtsInit
    /\ bwr = Idle /\ pmo = Idle /\ gc = Idle /\ es = Idle /\ sp = Idle

SpecDeploy == InitDeploy /\ [][NextDeploy]_vars

(***************************************************************************)
(* services/ai.py : parse_multi_file_output, the dependency declaration    *)
(***************************************************************************)
\* The characters of a declaration's payload; a token may be anything
PayloadChars == {"a", ";", ",", " "}

IsSpace(c) == c = " "

\* str.strip()
Strip(s) ==
    IF \A i \in 1..Len(s) : IsSpace(s[i]) THEN <<>>
    ELSE LET a == CHOOSE i \in 1..Len(s) :
                       ~IsSpace(s[i]) /\ \A j \in 1..(i - 1) : IsSpace(s[j])
             b == CHOOSE i \in 1..Len(s) :
                       ~IsSpace(s[i]) /\ \A j \in (i + 1)..Len(s) : IsSpace(s[j])
         IN  SubSeq(s, a, b)

\* str.split(","): the pieces between the commas, empty pieces included
SplitComma(s) ==
    LET F[i \in 0..Len(s)] ==
            \* the pieces of s[1..i]; the last piece is still open
            IF i = 0 THEN << <<>> >>
            ELSE IF s[i] = ","
                 THEN Append(F[i - 1], <<>>)
                 ELSE [F[i - 1] EXCEPT ![Len(F[i - 1])] = Append(@, s[i])]
    IN  F[Len(s)]

\* mutant: tokens that fail the safe-identifier check are dropped
DepTokensFiltered(payload) ==
    LET pieces == SplitComma(payload)
        F[i \in 0..Len(pieces)] ==
            IF i = 0 THEN <<>>
            ELSE IF Strip(pieces[i]) # <<>> /\ IsSafeDep(Strip(pieces[i]))
                 THEN Append(F[i - 1], Strip(pieces[i])) ELSE F[i - 1]
    IN  F[Len(pieces)]

\* lines 747 and 754: [d.strip() for d in payload.split(",") if d.strip()]
DepTokens(payload) ==
    LET pieces == SplitComma(payload)
        F[i \in 0..Len(pieces)] ==
            IF i = 0 THEN <<>>
            ELSE IF Strip(pieces[i]) # <<>>
                 THEN Append(F[i - 1], Strip(pieces[i])) ELSE F[i - 1]
    IN  F[Len(pieces)]

\* A raw model output is a sequence of lines.  A line is a dependency
\* declaration, new style "// === DEPS: payload ===" or old style
\* "// DEPS: payload", or a line of code.
DepsNew(payload) == [kind |-> "deps_new", payload |-> payload]
DepsOld(payload) == [kind |-> "deps_old", payload |-> payload]
CodeLine == [kind |-> "code", payload |-> <<>>]

RemoveAt(s, i) == SubSeq(s, 1, i - 1) \o SubSeq(s, i + 1, Len(s))

\* lines 743-756: the new-style declaration is searched first; the old-style
\* one is used only when the deps are still empty
ExtractDeps(raw) ==
    LET n     == FirstOf({k \in 1..Len(raw) : raw[k].kind = "deps_new"})
        deps1 == IF n = 0 THEN <<>> ELSE DepTokens(raw[n].payload)
        raw1  == IF n = 0 THEN raw ELSE RemoveAt(raw, n)
        o     == FirstOf({k \in 1..Len(raw1) : raw1[k].kind = "deps_old"})
        used  == o # 0 /\ deps1 = <<>>
    IN  [ deps |-> IF used THEN DepTokens(raw1[o].payload) ELSE deps1,
          raw  |-> IF used THEN RemoveAt(raw1, o) ELSE raw1,
          \* the payload the deps were read from
          declaration |-> IF used THEN raw1[o].payload
                          ELSE IF n # 0 THEN raw[n].payload ELSE <<>> ]

\* The other lines of a text: a blank line, a markdown fence, a sentence, the
\* client directive (double or single quoted), a named import, the line
\* "export default function <name>() {", a statement, a JSX tag, a closing
\* brace, and a file marker, new style "// === FILE: path ===" or old style
\* "// FILE: path".
Line(kind, payload) == [kind |-> kind, payload |-> payload]
Blank == Line("blank", <<>>)
Fence == Line("fence", <<>>)
Prose == Line("prose", <<>>)
UseClient(quote) == Line("use_client", <<quote>>)
Import(module, names) == Line("import", <<module>> \o names)
ExportFn(name) == Line("export_fn", name)
Statement(text) == Line("code", <<text>>)
Jsx(tag) == Line("jsx", <<tag>>)
Brace == Line("brace", <<>>)
FileNew(path) == Line("file_new", path)
FileOld(path) == Line("file_old", path)

\* str.strip() on a text: the blank lines at both ends go
StripLines(t) ==
    IF \A k \in 1..Len(t) : t[k] = Blank THEN <<>>
    ELSE LET a == FirstOf({k \in 1..Len(t) : t[k] # Blank})
             b == CHOOSE k \in 1..Len(t) :
                      t[k] # Blank /\ \A j \in (k + 1)..Len(t) : t[j] = Blank
         IN  SubSeq(t, a, b)

\* the indices of I in increasing order
Ascending(I, n) ==
    LET F[k \in 0..n] ==
            IF k = 0 THEN <<>>
            ELSE IF k \in I THEN Append(F[k - 1], k) ELSE F[k - 1]
    IN  F[n]

\* line 658: code_starters
StartsLikeCode(l) ==
    l.kind \in {"export_fn", "import", "file_new", "file_old", "deps_new", "deps_old"}

\* lines 639-662
StripTrailingProse(content) ==
    LET braces == {k \in 1..Len(content) : content[k] = Brace}
        last == IF braces = {} THEN 0
                ELSE CHOOSE k \in braces : \A j \in braces : j <= k
        first_trailing ==
            FirstOf({k \in (last + 1)..Len(content) : content[k] # Blank})
    IN  IF last = 0 \/ first_trailing = 0 THEN content
        ELSE IF StartsLikeCode(content[first_trailing]) THEN content
        ELSE SubSeq(content, 1, last)

\* a part of _LUCIDE_ICONS (line 599), in sorted order
IconOrder == <<"Menu", "Star", "X">>

\* line 702: a JSX tag is seen when its name has two characters or more
SeenTags == {"Menu", "Star", "Navbar"}

InsertAfter(t, k, l) == SubSeq(t, 1, k) \o <<l>> \o SubSeq(t, k + 1, Len(t))

\* lines 700-729: the icons used in JSX and not imported are added to the
\* lucide-react import, or a new import follows the double-quoted directive
FixMissingImports(content) ==
    LET idx == 1..Len(content)
        jsx_tags == {t \in SeenTags : \E k \in idx : content[k] = Jsx(t)}
        imported == UNION {Range(Tail(content[k].payload)) :
                              k \in {j \in idx : content[j].kind = "import"}}
        InMissing(t) == t \in jsx_tags /\ t \notin imported
        missing == SelectSeq(IconOrder, InMissing)
        lucide_match == FirstOf({k \in idx : /\ content[k].kind = "import"
                                             /\ content[k].payload[1] = "lucide-react"})
        directive == FirstOf({k \in idx : content[k] = UseClient("dq") /\ k < Len(content)})
        \* \s*\n: the blank lines after the directive are part of the match
        Run(k) == k < Len(content) /\ \A j \in (directive + 1)..k : content[j] = Blank
        after == CHOOSE k \in directive..Len(content) :
                    Run(k) /\ \A j \in (k + 1)..Len(content) : ~Run(j)
    IN  IF missing = <<>> THEN content
        ELSE IF lucide_match # 0
        THEN [content EXCEPT ![lucide_match].payload = @ \o missing]
        ELSE IF directive = 0 THEN content
        ELSE InsertAfter(content, after, Import("lucide-react", missing))

\* lines 665-697
CleanCode(content) ==
    LET NotFence(l) == l # Fence
        c1 == StripLines(SelectSeq(StripLines(content), NotFence))
        start == FirstOf({k \in 1..Len(c1) : c1[k].kind \in {"use_client", "import"}})
        c2 == StripLines(IF start > 1 THEN SubSeq(c1, start, Len(c1)) ELSE c1)
        c3 == StripTrailingProse(c2)
        c4 == IF \E k \in 1..Len(c3) : c3[k].kind = "use_client"
              THEN c3 ELSE <<UseClient("dq")>> \o c3
    IN  FixMissingImports(c4)

\* mutant: a text with one marker gives the file of that marker
ParseFilesOneMarker(raw) ==
    LET m == Ascending({k \in 1..Len(raw) : raw[k].kind = "file_new"}, Len(raw))
        End(i) == IF i < Len(m) THEN m[i + 1] - 1 ELSE Len(raw)
    IN  IF Len(m) >= 1
        THEN [i \in 1..Len(m) |->
                 File(raw[m[i]].payload, CleanCode(SubSeq(raw, m[i] + 1, End(i))))]
        ELSE <<File(PagePath, CleanCode(raw))>>

\* lines 758-784: a non-empty cleaned text is a file; with fewer than two
\* markers of one style the whole text is app/page.tsx
ParseFiles(raw) ==
    LET new_matches == {k \in 1..Len(raw) : raw[k].kind = "file_new"}
        old_matches == {k \in 1..Len(raw) : raw[k].kind = "file_old"}
        matches == IF Cardinality(new_matches) >= 2 THEN new_matches
                   ELSE IF Cardinality(old_matches) >= 2 THEN old_matches
                   ELSE new_matches
        m == Ascending(matches, Len(raw))
        End(i) == IF i < Len(m) THEN m[i + 1] - 1 ELSE Len(raw)
        NonEmpty(f) == f.content # <<>>
    IN  IF Len(m) >= 2
        THEN SelectSeq([i \in 1..Len(m) |->
                           File(raw[m[i]].payload,
                                CleanCode(SubSeq(raw, m[i] + 1, End(i))))],
                       NonEmpty)
        ELSE SelectSeq(<<File(PagePath, CleanCode(raw))>>, NonEmpty)

\* lines 734-784
ParseMultiFileOutput(raw) ==
    LET d == ExtractDeps(StripLines(raw))
    IN  [files |-> ParseFiles(StripLines(d.raw)), deps |-> d.deps]

Payloads == SeqsUpTo(PayloadChars, MaxPayload) \ {<<>>}

ShortPayloads == SeqsUpTo(PayloadChars, 1) \ {<<>>}

RawOutputs ==
    {<<CodeLine>>}
    \cup {<<DepsNew(p), CodeLine>> : p \in Payloads}
    \cup {<<CodeLine, DepsOld(p)>> : p \in Payloads}
    \cup {<<DepsNew(p), DepsOld(q)>> : p \in ShortPayloads, q \in ShortPayloads}
    \cup {<<DepsOld(p), DepsNew(q), DepsNew(p)>> : p \in ShortPayloads, q \in ShortPayloads}

NavbarPath == <<"components/", "Navbar", ".tsx">>
Navbar2Path == <<"components/", "Navbar", "2", ".tsx">>
RoutePagePath == <<"src/app/", "page", ".tsx">>

\* a component as the model writes it: its default export, one statement
\* (naming the writer), the closing brace
Component(name, by) == <<ExportFn(name), Statement(ToString(by)), Brace>>

\* routes/clone.py, lines 58-79: strip_markdown_fences; text.index("\n")
\* raises ValueError when the text is a single line that starts with a fence
StripMarkdownFences(text) ==
    LET t0 == StripLines(text)
        raises == t0 # <<>> /\ t0[1] = Fence /\ Len(t0) = 1
        t1 == IF t0 # <<>> /\ t0[1] = Fence THEN Tail(t0) ELSE t0
        t2 == IF t1 # <<>> /\ t1[Len(t1)] = Fence
              THEN StripLines(SubSeq(t1, 1, Len(t1) - 1)) ELSE t1
        First(l) == FirstOf({k \in 1..Len(t2) : t2[k] = l})
        file_marker_idx == FirstOf({k \in 1..Len(t2) : t2[k].kind = "file_old"})
        import_idx == FirstOf({k \in 1..Len(t2) : t2[k].kind = "import"})
        idx == IF file_marker_idx # 0 THEN file_marker_idx
               ELSE IF First(UseClient("dq")) # 0 THEN First(UseClient("dq"))
               ELSE IF First(UseClient("sq")) # 0 THEN First(UseClient("sq"))
               ELSE import_idx
    IN  IF raises THEN [raised |-> TRUE, text |-> <<>>]
        ELSE [raised |-> FALSE,
              text |-> StripLines(IF idx = 0 THEN t2 ELSE SubSeq(t2, idx, Len(t2)))]

\* routes/clone.py, lines 82-103: parse_multi_file_output of the route: the
\* text is split at the old-style markers, the first line of a part is its
\* path; a part without content is skipped; a repeated path keeps its place
\* and takes the later content
RouteParseFiles(raw) ==
    LET m == Ascending({k \in 1..Len(raw) : raw[k].kind = "file_old"}, Len(raw))
        End(i) == IF i < Len(m) THEN m[i + 1] - 1 ELSE Len(raw)
        Content(i) == StripLines(SubSeq(raw, m[i] + 1, End(i)))
        before == StripLines(SubSeq(raw, 1, IF m = <<>> THEN 0 ELSE m[1] - 1))
        first == IF Len(before) >= 2 /\ StripLines(Tail(before)) # <<>>
                 THEN <<File(<<before[1].kind>>, StripLines(Tail(before)))>> ELSE <<>>
        F[i \in 0..Len(m)] ==
            IF i = 0 THEN first
            ELSE IF raw[m[i]].payload = <<>> \/ Content(i) = <<>> THEN F[i - 1]
            ELSE LET at == FirstOf({k \in 1..Len(F[i - 1]) :
                                       F[i - 1][k].path = raw[m[i]].payload})
                 IN  IF at = 0
                     THEN Append(F[i - 1], File(raw[m[i]].payload, Content(i)))
                     ELSE [F[i - 1] EXCEPT ![at].content = Content(i)]
    IN  IF m = <<>> THEN <<File(RoutePagePath, raw)>> ELSE F[Len(m)]

\* the texts parsed: what the model may write before its code, as its code,
\* and after it
Texts ==
    LET Heads == {<<>>, <<Blank>>, <<Prose>>, <<Fence>>, <<DepsNew(<<"a">>)>>}
        Bodies ==
            { <<>>,
              Component(<<"Home">>, 1),
              <<UseClient("sq"), Import("lucide-react", <<"Star">>), Jsx("Menu")>>
                  \o Component(<<"Home">>, 1),
              <<FileNew(NavbarPath)>> \o Component(<<"Navbar">>, 1),
              <<FileNew(NavbarPath)>> \o Component(<<"Navbar">>, 1)
                  \o <<FileNew(HeroPath)>> \o Component(<<"Hero">>, 1),
              <<FileNew(NavbarPath), FileNew(HeroPath)>>,
              <<FileOld(NavbarPath)>> \o Component(<<"Navbar">>, 1)
                  \o <<FileOld(HeroPath), Blank, FileOld(NavbarPath)>>
                  \o Component(<<"Hero">>, 1),
              <<FileNew(NavbarPath)>> \o Component(<<"Navbar">>, 1)
                  \o <<FileOld(HeroPath)>> \o Component(<<"Hero">>, 1),
              <<UseClient("sq"), Jsx("Menu")>> \o Component(<<"Home">>, 1),
              <<Jsx("Star")>> \o Component(<<"Home">>, 1) }
        Tails == {<<>>, <<Blank>>, <<Prose>>, <<Fence>>}
    IN  {h \o b \o t : h \in Heads, b \in Bodies, t \in Tails}

\* one call of a parser on one text: parse_multi_file_output of services/ai.py
\* ("ai") or strip_markdown_fences and parse_multi_file_output of
\* routes/clone.py ("route")
PmoStart(parser, r) ==
    [pc |-> "called", parser |-> parser, raw |-> r, deps |-> <<>>, rest |-> <<>>,
     declaration |-> <<>>, files |-> <<>>]

PmoInit ==
    {PmoStart("ai", r) : r \in RawOutputs \cup Texts}
    \cup {PmoStart("route", r) : r \in Texts}

\* services/ai.py, lines 734-784
PmoParse ==
    /\ pmo.pc = "called"
    /\ pmo.parser = "ai"
    /\ LET r == ExtractDeps(StripLines(pmo.raw))
       IN  pmo' = [pmo EXCEPT !.pc = "parsed", !.deps = r.deps, !.rest = r.raw,
                              !.declaration = r.declaration,
                              !.files = ParseMultiFileOutput(pmo.raw).files]
    /\ UNCHANGED <<bwr, dts, gc, es, sp>>

\* routes/clone.py, lines 850-851
PmoRouteParse ==
    /\ pmo.pc = "called"
    /\ pmo.parser = "route"
    /\ LET cleaned_response == StripMarkdownFences(pmo.raw)
       IN  IF cleaned_response.raised
           THEN pmo' = [pmo EXCEPT !.pc = "raised"]
           ELSE pmo' = [pmo EXCEPT !.pc = "route_parsed",
                                   !.rest = cleaned_response.text,
                                   !.files = RouteParseFiles(cleaned_response.text)]
    /\ UNCHANGED <<bwr, dts, gc, es, sp>>

NextParse ==
    \/ PmoParse
    \/ PmoRouteParse

InitParse ==
    /\ pmo \in PmoInit
    /\ bwr = Idle /\ dts = Idle /\ gc = Idle /\ es = Idle /\ sp = Idle

SpecParse == InitParse /\ [][NextParse]_vars

(***************************************************************************)
(* routes/clone.py : clone_website.event_stream and redeploy_clone.stream  *)
(*                                                                         *)
(* es.events is the sequence of SSE events the generator has yielded.      *)
(* es.pc names the await the generator is suspended at.                    *)
(***************************************************************************)
\* len(TEMPLATE_FILES)
NumTemplateFiles == 8

\* MAX_SCREENSHOTS, line 52
RouteMaxScreenshots == 15

\* _log(msg)
Log == [kind |-> "log", status |-> None, message |-> FALSE, files |-> FALSE,
        preview_url |-> None, clone_id |-> None]

\* _status(status, message)
Status(st) == [kind |-> "status", status |-> st, message |-> TRUE, files |-> FALSE,
               preview_url |-> None, clone_id |-> None]

\* {"status": "error", "message": ...}
ErrorEvent == [kind |-> "status", status |-> "error", message |-> TRUE, files |-> FALSE,
               preview_url |-> None, clone_id |-> None]

\* {"status": "done", "code": ..., "preview_url": ..., "clone_id": ...,
\* "files": ...}; the redeploy stream's done event carries the preview URL only
DoneEvent(url, with_files, clone_id) ==
    [kind |-> "status", status |-> "done", message |-> FALSE, files |-> with_files,
     preview_url |-> url, clone_id |-> clone_id]

Emit(s, evs) == [s EXCEPT !.events = @ \o evs]

\* mutant: a database write shows in the stream
DbUpdateLogs(s, st) ==
    IF s.clone_id = None THEN s ELSE [s EXCEPT !.db = Append(@, st), !.events = Append(@, Log)]

\* _db_update_clone: a no-op without a clone id
DbUpdate(s, st) == IF s.clone_id = None THEN s ELSE [s EXCEPT !.db = Append(@, st)]

\* the awaits of the scraping phase, in order; the screenshot loop and
\* browser.close() follow
ScrapeStages ==
    << "launch", "new_page", "goto", "lazy_scroll", "content", "styles", "outline",
       "nav", "interactive", "images", "height" >>

StageIndex(pc) == FirstOf({i \in 1..Len(ScrapeStages) : ScrapeStages[i] = pc})

\* the number of log events yielded between the end of a scraping await and
\* the next await (lines 472-580)
LogsAfter(stage) ==
    CASE stage = "launch"      -> 1
      [] stage = "new_page"    -> 1
      [] stage = "goto"        -> 2
      [] stage = "lazy_scroll" -> 1
      [] stage = "content"     -> 2
      [] stage = "styles"      -> 2
      [] stage = "outline"     -> 2
      [] stage = "nav"         -> 2
      [] stage = "interactive" -> 2
      [] stage = "images"      -> 1
      [] stage = "height"      -> 1

Logs(n) == [i \in 1..n |-> Log]

\* the dicts parse_multi_file_output (routes/clone.py) may return
RouteFileSets ==
    { <<>>,
      <<"src/app/page.tsx">>,
      <<"src/app/page.tsx", "src/components/navbar.tsx">>,
      <<"src/components/navbar.tsx">> }

EsStartState(route, api_key, clone_id) ==
    [ route           |-> route,
      pc              |-> IF route = "clone" THEN "start" ELSE "r_start",
      events          |-> <<>>,
      api_key         |-> api_key,
      clone_id        |-> clone_id,
      db              |-> <<>>,
      total_height    |-> 0,
      screenshots     |-> 0,
      generated_files |-> IF route = "clone" THEN <<>> ELSE <<"src/app/page.tsx">>,
      idx             |-> 0,
      attempt         |-> 0,
      build_ok        |-> FALSE,
      exits           |-> <<>>,
      preview_url     |-> None,
      sandbox         |-> "pending",
      model_calls     |-> 0,
      fix_failed      |-> FALSE,
      deploy_error    |-> FALSE,
      failure         |-> None,
      cause           |-> None ]

EsInit ==
    {EsStartState("clone", k, c) : k \in {None, "key"}, c \in {None, "id"}}
    \cup {EsStartState("redeploy", None, "id")}

\* lines 1045-1054: both handlers of the outer try
EsFatal(s) ==
    [Emit(DbUpdate(s, "error"), <<Log, ErrorEvent>>) EXCEPT !.pc = "closed"]

\* lines 1015-1043: the DONE section
EsDone(s) ==
    [Emit(DbUpdate(s, "done"), <<DoneEvent(s.preview_url, TRUE, s.clone_id)>>) EXCEPT !.pc = "closed"]

\* mutant: the exception of the deploy phase reaches the outer handler
EsDeployErrorFatal(s) == EsFatal([s EXCEPT !.deploy_error = TRUE])

\* lines 1011-1013: an exception of the deploy phase is logged, then DONE
EsDeployError(s) == EsDone(Emit([s EXCEPT !.deploy_error = TRUE], <<Log>>))

\* lines 996-1002
EsToStartServer(s) == [Emit(s, <<Status("deploying"), Log>>) EXCEPT !.pc = "start_server"]

\* mutant: a retry announces no new build
EsLoopTopNoStatus(s) ==
    IF s.attempt > 1
    THEN [Emit(s, <<Log, Log>>) EXCEPT !.pc = "reupload"]
    ELSE [Emit(s, <<Status("deploying"), Log>>) EXCEPT !.pc = "build"]

\* lines 927-946: the top of one iteration of the build loop
EsLoopTop(s) ==
    LET t == Emit(s, <<Status("deploying"), Log>>)
    IN  IF t.attempt > 1
        THEN [Emit(t, <<Log>>) EXCEPT !.pc = "reupload"]
        ELSE [t EXCEPT !.pc = "build"]

\* lines 913-920
EsToNpm(s) == [Emit(s, <<Status("deploying"), Log>>) EXCEPT !.pc = "npm"]

\* lines 903-910: the first generated file, or on to npm install
EsToUploadGenerated(s) ==
    IF s.generated_files # <<>>
    THEN [Emit(s, <<Log>>) EXCEPT !.pc = "upload_generated", !.idx = 1]
    ELSE EsToNpm(s)

\* lines 459-466
EsStartAt(s, u) ==
    /\ s.pc = "start"
    /\ u = [Emit(s, <<Status("scraping"), Log, Log>>) EXCEPT !.pc = "launch"]

EsStart ==
    /\ EsStartAt(es, es')
    /\ UNCHANGED <<bwr, dts, pmo, gc, sp>>

\* lines 469-580: one await of the scraping phase completes
EsScrapeStepAt(s, u) ==
    /\ StageIndex(s.pc) # 0
    /\ LET t == Emit(s, Logs(LogsAfter(s.pc)))
       IN  IF s.pc # "height"
           THEN u = [t EXCEPT !.pc = ScrapeStages[StageIndex(s.pc) + 1]]
           ELSE \E h \in 0..MaxViewports :
                    u = [t EXCEPT !.total_height = h,
                                    !.pc = IF h > 0 THEN "screenshot" ELSE "close"]

EsScrapeStep ==
    /\ EsScrapeStepAt(es, es')
    /\ UNCHANGED <<bwr, dts, pmo, gc, sp>>

\* lines 583-591: one iteration of the screenshot loop
EsScreenshotAt(s, u) ==
    /\ s.pc = "screenshot"
    /\ LET n == s.screenshots + 1
       IN  u = [Emit(s, <<Log>>) EXCEPT
                     !.screenshots = n,
                     !.pc = IF n < s.total_height /\ n < RouteMaxScreenshots
                            THEN "screenshot" ELSE "close"]

EsScreenshot ==
    /\ EsScreenshotAt(es, es')
    /\ UNCHANGED <<bwr, dts, pmo, gc, sp>>

\* lines 604-613 and 825-833: the generating phase starts and checks the
\* credential
EsToGenerating(s) ==
    LET t == Emit(s, <<Status("generating"), Log>>)
    IN  IF t.api_key = None
        THEN EsFatal([t EXCEPT !.failure = "credential"])
        ELSE [Emit(t, <<Log>>) EXCEPT !.pc = "call_ai", !.model_calls = @ + 1]

\* mutant: the scrape error is recorded and the pipeline goes on
EsScrapeFailsSwallowed ==
    /\ StageIndex(es.pc) # 0 \/ es.pc \in {"screenshot", "close"}
    /\ es' = EsToGenerating(DbUpdate([es EXCEPT !.failure = "scrape"], "error"))
    /\ UNCHANGED <<bwr, dts, pmo, gc, sp>>

\* lines 599-602 and 1045-1049: any exception while scraping becomes an
\* HTTPException, which the outer handler turns into the error event
EsScrapeFailsAt(s, u) ==
    /\ StageIndex(s.pc) # 0 \/ s.pc \in {"screenshot", "close"}
    /\ u = EsFatal(DbUpdate([s EXCEPT !.failure = "scrape"], "error"))

EsScrapeFails ==
    /\ EsScrapeFailsAt(es, es')
    /\ UNCHANGED <<bwr, dts, pmo, gc, sp>>

\* lines 593-598: the browser closes and the scraping phase ends
EsScrapeDoneAt(s, u) ==
    /\ s.pc = "close"
    /\ u = EsToGenerating(DbUpdate(Emit(s, <<Log>>), "generating"))

EsScrapeDone ==
    /\ EsScrapeDoneAt(es, es')
    /\ UNCHANGED <<bwr, dts, pmo, gc, sp>>

\* lines 831-847 and 1050-1054: the generation call fails (HTTP error, request
\* error, malformed response), or strip_markdown_fences raises on its answer
EsCallAiFailsAt(s, u) ==
    /\ s.pc = "call_ai"
    /\ \E cause \in {"http_status", "request_error", "response_format", "fences"} :
         u = EsFatal([s EXCEPT !.failure = "generation", !.cause = cause])

EsCallAiFails ==
    /\ EsCallAiFailsAt(es, es')
    /\ UNCHANGED <<bwr, dts, pmo, gc, sp>>

\* lines 849-864
EsCallAiReturnsAt(s, u) ==
    /\ s.pc = "call_ai"
    /\ \E files \in RouteFileSets :
         u = [Emit(DbUpdate(Emit([s EXCEPT !.generated_files = files], <<Log>>),
                              "deploying"),
                     <<Status("deploying"), Log>>)
                   EXCEPT !.pc = "create_sandbox"]

EsCallAiReturns ==
    /\ EsCallAiReturnsAt(es, es')
    /\ UNCHANGED <<bwr, dts, pmo, gc, sp>>

\* lines 866-891: no sandbox: skip the deployment; else start mkdir
EsCreateSandboxAt(s, u) ==
    /\ s.pc = "create_sandbox"
    /\ \/ u = EsDone(Emit([s EXCEPT !.sandbox = None], <<Log>>))
       \/ u = [Emit(s, <<Log, Status("deploying"), Log>>) EXCEPT
                    !.pc = "mkdir", !.sandbox = "created"]
       \/ u = EsDeployError(s)

EsCreateSandbox ==
    /\ EsCreateSandboxAt(es, es')
    /\ UNCHANGED <<bwr, dts, pmo, gc, sp>>

\* lines 888-901
EsMkdirAt(s, u) ==
    /\ s.pc = "mkdir"
    /\ \/ u = [Emit(s, <<Log>>) EXCEPT !.pc = "upload_template", !.idx = 1]
       \/ u = EsDeployError(s)

EsMkdir ==
    /\ EsMkdirAt(es, es')
    /\ UNCHANGED <<bwr, dts, pmo, gc, sp>>

\* lines 894-901: one template file
EsUploadTemplateAt(s, u) ==
    /\ s.pc = "upload_template"
    /\ \/ IF s.idx < NumTemplateFiles
          THEN u = [Emit(s, <<Log>>) EXCEPT !.idx = @ + 1]
          ELSE u = EsToUploadGenerated(s)
       \/ u = EsDeployError(s)

EsUploadTemplate ==
    /\ EsUploadTemplateAt(es, es')
    /\ UNCHANGED <<bwr, dts, pmo, gc, sp>>

\* lines 904-910: one generated file
EsUploadGeneratedAt(s, u) ==
    /\ s.pc = "upload_generated"
    /\ \/ IF s.idx < Len(s.generated_files)
          THEN u = [Emit(s, <<Log>>) EXCEPT !.idx = @ + 1]
          ELSE u = EsToNpm(s)
       \/ u = EsDeployError(s)

EsUploadGenerated ==
    /\ EsUploadGeneratedAt(es, es')
    /\ UNCHANGED <<bwr, dts, pmo, gc, sp>>

\* lines 918-930
EsNpmAt(s, u) ==
    /\ s.pc = "npm"
    /\ \/ u = EsLoopTop([Emit(s, <<Log>>) EXCEPT !.attempt = 1])
       \/ u = EsDeployError(s)

EsNpm ==
    /\ EsNpmAt(es, es')
    /\ UNCHANGED <<bwr, dts, pmo, gc, sp>>

\* lines 933-940
EsReuploadAt(s, u) ==
    /\ s.pc = "reupload"
    /\ \/ u = [s EXCEPT !.pc = "build"]
       \/ u = EsDeployError(s)

EsReupload ==
    /\ EsReuploadAt(es, es')
    /\ UNCHANGED <<bwr, dts, pmo, gc, sp>>

\* lines 943-965 and 992-994: the build returns
EsBuildAt(s, u) ==
    /\ s.pc = "build"
    /\ \/ u = EsToStartServer(Emit([s EXCEPT !.build_ok = TRUE,
                                              !.exits = Append(@, 0)], <<Log>>))
       \/ \E exit_code \in ExitCodes \ {0} :
            LET t == Emit([s EXCEPT !.exits = Append(@, exit_code)], <<Log, Log>>)
            IN  IF t.attempt < MAX_BUILD_ATTEMPTS
                THEN u = [Emit(t, <<Status("fixing"), Log>>) EXCEPT
                             !.pc = "fix", !.model_calls = @ + 1]
                ELSE u = EsToStartServer(Emit(t, <<Log>>))
       \/ u = EsDeployError(s)

EsBuild ==
    /\ EsBuildAt(es, es')
    /\ UNCHANGED <<bwr, dts, pmo, gc, sp>>

\* lines 979-991: the fix call returns new files, or fails and ends the loop
EsFixAt(s, u) ==
    /\ s.pc = "fix"
    /\ \/ \E files \in RouteFileSets :
            u = EsLoopTop(Emit([s EXCEPT !.generated_files = files,
                                            !.attempt = @ + 1], <<Log>>))
       \/ u = EsToStartServer(Emit([s EXCEPT !.fix_failed = TRUE], <<Log>>))

EsFix ==
    /\ EsFixAt(es, es')
    /\ UNCHANGED <<bwr, dts, pmo, gc, sp>>

\* lines 999-1004
EsStartServerAt(s, u) ==
    /\ s.pc = "start_server"
    /\ \/ u = [Emit(s, <<Log>>) EXCEPT !.pc = "sleep"]
       \/ u = EsDeployError(s)

EsStartServer ==
    /\ EsStartServerAt(es, es')
    /\ UNCHANGED <<bwr, dts, pmo, gc, sp>>

\* lines 1004-1043: the signed preview URL, then DONE
EsPreviewAt(s, u) ==
    /\ s.pc = "sleep"
    /\ \/ u = EsDone(Emit([s EXCEPT !.preview_url = "url"], <<Log>>))
       \/ u = EsDeployError(s)

EsPreview ==
    /\ EsPreviewAt(es, es')
    /\ UNCHANGED <<bwr, dts, pmo, gc, sp>>

\* lines 1220-1222: the handler of the redeploy stream
EsRedeployError(s) == [Emit(s, <<ErrorEvent>>) EXCEPT !.pc = "closed"]

\* lines 1137-1145
EsRedeployStart ==
    /\ es.pc = "r_start"
    /\ es' = [Emit(es, <<Log, Status("deploying"), Log>>) EXCEPT !.pc = "r_create"]
    /\ UNCHANGED <<bwr, dts, pmo, gc, sp>>

\* mutant: the return after the error event of a missing sandbox is left out
EsRedeployCreateNoReturn ==
    /\ es.pc = "r_create"
    /\ \/ es' = [Emit(es, <<ErrorEvent>>) EXCEPT !.pc = "r_mkdir", !.sandbox = None]
       \/ es' = [Emit(es, <<Log, Status("deploying")>>) EXCEPT
                    !.pc = "r_mkdir", !.sandbox = "created"]
       \/ es' = EsRedeployError(es)
    /\ UNCHANGED <<bwr, dts, pmo, gc, sp>>

\* lines 1145-1159
EsRedeployCreate ==
    /\ es.pc = "r_create"
    /\ \/ es' = [Emit(es, <<ErrorEvent>>) EXCEPT !.pc = "closed", !.sandbox = None]
       \/ es' = [Emit(es, <<Log, Status("deploying")>>) EXCEPT
                    !.pc = "r_mkdir", !.sandbox = "created"]
       \/ es' = EsRedeployError(es)
    /\ UNCHANGED <<bwr, dts, pmo, gc, sp>>

\* lines 1156-1218: the awaits of the redeploy stream after the sandbox exists
RedeploySteps == <<"r_mkdir", "r_upload", "r_npm", "r_build", "r_start_server", "r_sleep">>

RedeployIndex(pc) == FirstOf({i \in 1..Len(RedeploySteps) : RedeploySteps[i] = pc})

\* what the redeploy stream yields once an await has completed
RedeployAfter(pc, exit_code) ==
    CASE pc = "r_mkdir"        -> <<>>
      [] pc = "r_upload"       -> <<Log, Status("deploying"), Log>>
      [] pc = "r_npm"          -> <<Log, Status("deploying"), Log>>
      [] pc = "r_build"        -> (IF exit_code # 0 THEN <<Log>> ELSE <<>>)
                                      \o <<Status("deploying"), Log>>
      [] pc = "r_start_server" -> <<>>
      [] pc = "r_sleep"        -> <<Log>>

EsRedeployStep ==
    /\ RedeployIndex(es.pc) # 0
    /\ \/ \E exit_code \in (IF es.pc = "r_build" THEN ExitCodes ELSE {0}) :
            LET t == Emit(es, RedeployAfter(es.pc, exit_code))
            IN  IF es.pc # "r_sleep"
                THEN es' = [t EXCEPT !.pc = RedeploySteps[RedeployIndex(es.pc) + 1]]
                ELSE es' = [Emit(DbUpdate([t EXCEPT !.preview_url = "url"], "preview"),
                                 <<DoneEvent("url", FALSE, None)>>) EXCEPT !.pc = "closed"]
       \/ es' = EsRedeployError(es)
    /\ UNCHANGED <<bwr, dts, pmo, gc, sp>>

NextStream ==
    \/ EsStart
    \/ EsScrapeStep
    \/ EsScreenshot
    \/ EsScrapeFails
    \/ EsScrapeDone
    \/ EsCallAiFails
    \/ EsCallAiReturns
    \/ EsCreateSandbox
    \/ EsMkdir
    \/ EsUploadTemplate
    \/ EsUploadGenerated
    \/ EsNpm
    \/ EsReupload
    \/ EsBuild
    \/ EsFix
    \/ EsStartServer
    \/ EsPreview
    \/ EsRedeployStart
    \/ EsRedeployCreate
    \/ EsRedeployStep

InitStream ==
    /\ es \in EsInit
    /\ bwr = Idle /\ dts = Idle /\ pmo = Idle /\ gc = Idle /\ sp = Idle

SpecStream == InitStream /\ [][NextStream]_vars

(***************************************************************************)
(* services/ai.py : generate_clone, generate_clone_parallel,               *)
(* _run_section_agent, _stitch_results, _assemble_page                     *)
(*                                                                         *)
(* gc.agent[i] is the task of section agent i; the tasks interleave at     *)
(* their awaits.  A file content is a text, a sequence of lines; the       *)
(* statement in it names the agent that wrote it (0 for the page of the    *)
(* assembler).                                                             *)
(***************************************************************************)
MAX_PARALLEL_AGENTS == 5

\* the answers the model may give to agent i; <<>> is the empty string and
\* <<Blank>> a string of white space
AgentAnswers(i) ==
    { <<>>,
      <<Blank>>,
      Component(<<"Home">>, i),
      <<FileNew(NavbarPath)>> \o Component(<<"Navbar">>, i),
      <<FileNew(NavbarPath)>> \o Component(<<"Navbar">>, i)
          \o <<FileNew(HeroPath)>> \o Component(<<"Hero">>, i),
      <<FileNew(NavbarPath)>> \o Component(<<"Navbar">>, i)
          \o <<FileNew(PagePath)>> \o Component(<<"Home">>, i),
      <<FileNew(NavbarPath)>> \o Component(<<"Navbar">>, i)
          \o <<FileNew(Navbar2Path)>> \o Component(<<"Navbar", "2">>, i) }

\* lines 1063-1072 and 1290-1302: raw_output = content or ""; an empty
\* string gives no file, any other text is parsed
FilesOfAnswer(raw) ==
    IF raw = <<>> THEN <<>> ELSE ParseMultiFileOutput(raw).files

\* mutant: three screenshots already give three agents
DetermineAgentCountEarly(num_screenshots) ==
    IF num_screenshots <= 1 THEN 1
    ELSE IF num_screenshots < 3 THEN 2
    ELSE IF 3 <= MAX_PARALLEL_AGENTS THEN 3 ELSE MAX_PARALLEL_AGENTS

\* lines 789-796
DetermineAgentCount(num_screenshots) ==
    IF num_screenshots <= 1 THEN 1
    ELSE IF num_screenshots <= 3 THEN 2
    ELSE IF 3 <= MAX_PARALLEL_AGENTS THEN 3 ELSE MAX_PARALLEL_AGENTS

\* mutant: the remainder goes to the last agents
SectionSizeLate(n, num_agents, a) ==
    (n \div num_agents) + (IF num_agents - a < n % num_agents THEN 1 ELSE 0)

\* lines 809-816: the number of screenshots of agent a (counted from 1)
SectionSize(n, num_agents, a) ==
    (n \div num_agents) + (IF a - 1 < n % num_agents THEN 1 ELSE 0)

\* lines 805-818: one of the two lists is cut into num_agents slices; the
\* counts come from n = len(screenshots), a Python slice stops at the end of
\* the list
AssignSlices(items, n, num_agents) ==
    LET idx[a \in 1..(num_agents + 1)] ==
            IF a = 1 THEN 0 ELSE idx[a - 1] + SectionSize(n, num_agents, a - 1)
        Upto(k) == IF k < Len(items) THEN k ELSE Len(items)
    IN  [a \in 1..num_agents |-> SubSeq(items, idx[a] + 1, Upto(idx[a + 1]))]

\* line 1106: positions = scroll_positions or [0] * n
Positions(scroll_positions, n) ==
    IF scroll_positions = <<>> THEN [k \in 1..n |-> 0] ELSE scroll_positions

\* lines 836-840: path.rsplit(".", 1), then the agent's ordinal before the
\* extension
RenamedPath(path, agent_idx) ==
    SubSeq(path, 1, Len(path) - 1) \o <<ToString(agent_idx + 1)>> \o <<path[Len(path)]>>

\* lines 839-846: re.sub on "export default function <old_name>\b"
RenamedCode(path, agent_idx, content) ==
    LET old_name == SubSeq(path, 2, Len(path) - 1)
        new_name == old_name \o <<ToString(agent_idx + 1)>>
    IN  [k \in 1..Len(content) |->
            IF content[k] = ExportFn(old_name) THEN ExportFn(new_name) ELSE content[k]]

\* lines 854-857
IsTopLevelComponent(path) == path[1] = "components/"

\* lines 828-866, file part: st holds files, seen_paths and component_order;
\* agent_idx counts from 0 as enumerate does
RECURSIVE StitchFiles(_, _, _)
StitchFiles(st, agent_idx, fs) ==
    IF fs = <<>> THEN st
    ELSE LET f == Head(fs)
             seen == f.path \in st.seen_paths
             g == IF seen
                  THEN File(RenamedPath(f.path, agent_idx),
                            RenamedCode(f.path, agent_idx, f.content))
                  ELSE f
             st2 == [ files |-> Append(st.files, g),
                      seen_paths |-> IF seen THEN st.seen_paths
                                     ELSE st.seen_paths \cup {f.path},
                      component_order |->
                          IF IsTopLevelComponent(g.path)
                          THEN Append(st.component_order,
                                      [name |-> SubSeq(g.path, 2, Len(g.path) - 1),
                                       agent |-> agent_idx + 1])
                          ELSE st.component_order ]
         IN  IF f.path = PagePath
             THEN StitchFiles(st, agent_idx, Tail(fs))
             ELSE StitchFiles(st2, agent_idx, Tail(fs))

RECURSIVE StitchFrom(_, _, _)
StitchFrom(st, agent_results, k) ==
    IF k > Len(agent_results) THEN st
    ELSE StitchFrom(StitchFiles(st, k - 1, agent_results[k]), agent_results, k + 1)

StitchResults(agent_results) ==
    StitchFrom([files |-> <<>>, seen_paths |-> {}, component_order |-> <<>>],
               agent_results, 1)

\* lines 987-1006: the mechanical page imports the components in order
\* (one default import per entry, then one JSX tag per entry inside Home)
FallbackPage(component_order) ==
    <<UseClient("dq"), Blank>>
    \o [k \in 1..Len(component_order) |-> Line("import_default", component_order[k].name)]
    \o <<Blank, ExportFn(<<"Home">>), Statement("return"), Statement("main")>>
    \o [k \in 1..Len(component_order) |-> Line("jsx", component_order[k].name)]
    \o <<Statement("/main"), Statement(")"), Brace>>

\* the answers the model may give to the assembler
AssemblerAnswers ==
    { <<>>, <<Fence, UseClient("dq")>> \o Component(<<"Home">>, 0) \o <<Fence>> }

\* what a section prompt says about the header and the footer
Boundary(role, owns_header, owns_footer, no_header, no_footer) ==
    [role |-> role, owns_header |-> owns_header, owns_footer |-> owns_footer,
     no_header |-> no_header, no_footer |-> no_footer]

\* mutant: the last agent is taken for a middle agent
BuildSectionPromptNoLast(agent_num, total_agents) ==
    IF agent_num = 1
    THEN Boundary("top", TRUE, FALSE, FALSE, agent_num # total_agents)
    ELSE Boundary("middle", FALSE, FALSE, TRUE, TRUE)

\* lines 542-561: role and boundary_rules of build_section_prompt
BuildSectionPrompt(agent_num, total_agents) ==
    LET is_first == agent_num = 1
        is_last == agent_num = total_agents
    IN  IF is_first THEN Boundary("top", TRUE, FALSE, FALSE, ~is_last)
        ELSE IF is_last THEN Boundary("bottom", FALSE, TRUE, TRUE, FALSE)
        ELSE Boundary("middle", FALSE, FALSE, TRUE, TRUE)

AgentStartState(section_screenshots, section_positions, prompt) ==
    [pc |-> "ready", n |-> Len(section_screenshots),
     section_screenshots |-> section_screenshots,
     section_positions |-> section_positions,
     prompt |-> prompt,
     calls |-> 0, first_raised |-> FALSE, outcome |-> "pending", raw |-> <<>>,
     files |-> <<>>]

\* the screenshots are numbered 1..n; scroll_positions is <<>> when the
\* caller gives none
GcStartState(n, scroll_positions) ==
    [ pc              |-> "start",
      n               |-> n,
      screenshots     |-> [k \in 1..n |-> k],
      scroll_positions |-> scroll_positions,
      num_agents      |-> 0,
      agent           |-> <<>>,
      component_files |-> <<>>,
      component_order |-> <<>>,
      assembler_calls |-> 0,
      assembler       |-> "pending",
      single_calls    |-> 0,
      files           |-> <<>>,
      cause           |-> None ]

GcInit ==
    {GcStartState(n, <<>>) : n \in 0..MaxScreenshots}
    \cup {GcStartState(n, [k \in 1..n |-> 900 * (k - 1)]) : n \in 1..MaxScreenshots}

GcRaise(s, cause) == [s EXCEPT !.pc = "raised", !.cause = cause]

\* lines 1233-1250 and 1105-1149: no screenshot: the empty result; one agent:
\* the single-agent call; else the section agents are created
GenerateCloneStart ==
    /\ gc.pc = "start"
    /\ LET num_agents == DetermineAgentCount(gc.n)
       IN  IF gc.n = 0
           THEN gc' = [gc EXCEPT !.pc = "returned"]
           ELSE IF num_agents = 1
           THEN \/ gc' = [gc EXCEPT !.pc = "single", !.num_agents = 1,
                                    !.single_calls = 1]
                \/ gc' = GcRaise(gc, "on_status")
           ELSE \/ gc' = [gc EXCEPT
                            !.pc = "agents",
                            !.num_agents = num_agents,
                            !.agent =
                                LET positions == Positions(gc.scroll_positions, gc.n)
                                    ss == AssignSlices(gc.screenshots, gc.n, num_agents)
                                    pos == AssignSlices(positions, gc.n, num_agents)
                                IN  [a \in 1..num_agents |->
                                        AgentStartState(ss[a], pos[a],
                                            BuildSectionPrompt(a, num_agents))]]
                \/ gc' = GcRaise(gc, "on_status")
    /\ UNCHANGED <<bwr, dts, pmo, es, sp>>

\* mutant: the exception of the single-agent call is caught and the empty
\* result returned
GenerateCloneSingleCaught ==
    /\ gc.pc = "single"
    /\ \/ \E raw \in AgentAnswers(1) :
            gc' = [gc EXCEPT !.pc = "returned", !.files = FilesOfAnswer(raw)]
       \/ gc' = [gc EXCEPT !.pc = "returned", !.cause = "model_call"]
       \/ gc' = GcRaise(gc, "on_status")
    /\ UNCHANGED <<bwr, dts, pmo, es, sp>>

\* lines 1283-1319: the single-agent call; its exception is not caught
GenerateCloneSingle ==
    /\ gc.pc = "single"
    /\ \/ \E raw \in AgentAnswers(1) :
            gc' = [gc EXCEPT !.pc = "returned", !.files = FilesOfAnswer(raw)]
       \/ gc' = GcRaise(gc, "model_call")
       \/ gc' = GcRaise(gc, "on_status")
    /\ UNCHANGED <<bwr, dts, pmo, es, sp>>

AgentFinish(s, i, outcome, files) ==
    [s EXCEPT !.agent[i].pc = "finished", !.agent[i].outcome = outcome,
              !.agent[i].files = files]

\* lines 1020-1044: the task of agent i runs up to its first model call;
\* gather starts the tasks in order
AgentStart(i) ==
    /\ gc.pc = "agents"
    /\ gc.agent[i].pc = "ready"
    /\ \A j \in 1..(i - 1) : gc.agent[j].pc # "ready"
    /\ \/ gc' = [gc EXCEPT !.agent[i].pc = "call", !.agent[i].calls = 1]
       \/ gc' = AgentFinish(gc, i, "exception", <<>>)
    /\ UNCHANGED <<bwr, dts, pmo, es, sp>>

\* mutant: the retry loop makes three tries
AgentCallRaisesThreeTries(i) ==
    /\ gc.pc = "agents"
    /\ gc.agent[i].pc = "call"
    /\ IF gc.agent[i].calls < 3
       THEN gc' = [gc EXCEPT !.agent[i].pc = "sleep", !.agent[i].first_raised = TRUE]
       ELSE \/ gc' = AgentFinish(gc, i, "gave_up", <<>>)
            \/ gc' = AgentFinish(gc, i, "exception", <<>>)
    /\ UNCHANGED <<bwr, dts, pmo, es, sp>>

\* lines 1051-1061: the model call of agent i raises; after the first try the
\* agent sleeps and tries again, after the second it returns the empty result
\* (or on_status raises in it)
AgentCallRaises(i) ==
    /\ gc.pc = "agents"
    /\ gc.agent[i].pc = "call"
    /\ IF gc.agent[i].calls = 1
       THEN gc' = [gc EXCEPT !.agent[i].pc = "sleep", !.agent[i].first_raised = TRUE]
       ELSE \/ gc' = AgentFinish(gc, i, "gave_up", <<>>)
            \/ gc' = AgentFinish(gc, i, "exception", <<>>)
    /\ UNCHANGED <<bwr, dts, pmo, es, sp>>

\* lines 1055 and 1042-1044: the sleep ends, the second call is issued
AgentRetry(i) ==
    /\ gc.pc = "agents"
    /\ gc.agent[i].pc = "sleep"
    /\ gc' = [gc EXCEPT !.agent[i].pc = "call", !.agent[i].calls = @ + 1]
    /\ UNCHANGED <<bwr, dts, pmo, es, sp>>

\* lines 1050 and 1063-1082: the model call of agent i returns; an answer
\* without choices, or a raising on_status, makes the task raise
AgentCallReturns(i) ==
    /\ gc.pc = "agents"
    /\ gc.agent[i].pc = "call"
    /\ \/ \E raw \in AgentAnswers(i) :
            gc' = [AgentFinish(gc, i, "result", FilesOfAnswer(raw)) EXCEPT
                      !.agent[i].raw = raw]
       \/ gc' = AgentFinish(gc, i, "exception", <<>>)
    /\ UNCHANGED <<bwr, dts, pmo, es, sp>>

AllFinished(s) == \A i \in DOMAIN s.agent : s.agent[i].pc = "finished"

\* lines 1153-1159
CleanResults(s) ==
    [i \in DOMAIN s.agent |->
        IF s.agent[i].outcome = "exception" THEN <<>> ELSE s.agent[i].files]

\* lines 1153-1184 and 881-958: stitch, then issue the assembler call
Joined(s) ==
    LET stitched == StitchResults(CleanResults(s))
    IN  [s EXCEPT !.pc = "assemble",
                  !.component_files = stitched.files,
                  !.component_order = stitched.component_order,
                  !.assembler_calls = @ + 1]

\* mutant: gather without return_exceptions: the first exception of a task is
\* raised to the caller
GatherReturnsFailFast ==
    /\ gc.pc = "agents"
    /\ \/ /\ \E i \in DOMAIN gc.agent : gc.agent[i].outcome = "exception"
          /\ gc' = GcRaise(gc, "agent")
       \/ /\ AllFinished(gc)
          /\ \A i \in DOMAIN gc.agent : gc.agent[i].outcome # "exception"
          /\ \/ gc' = Joined(gc)
             \/ gc' = GcRaise(gc, "on_status")
    /\ UNCHANGED <<bwr, dts, pmo, es, sp>>

\* mutant: the join returns as soon as one task has ended
GatherReturnsFirstCompleted ==
    /\ gc.pc = "agents"
    /\ \E i \in DOMAIN gc.agent : gc.agent[i].pc = "finished"
    /\ \/ gc' = Joined(gc)
       \/ gc' = GcRaise(gc, "on_status")
    /\ UNCHANGED <<bwr, dts, pmo, es, sp>>

\* lines 1151-1184: gather returns once every task has ended
GatherReturns ==
    /\ gc.pc = "agents"
    /\ AllFinished(gc)
    /\ \/ gc' = Joined(gc)
       \/ gc' = GcRaise(gc, "on_status")
    /\ UNCHANGED <<bwr, dts, pmo, es, sp>>

\* lines 1186-1208
Assembled(s, assembler, page_content) ==
    [s EXCEPT !.pc = "returned", !.assembler = assembler,
              !.files = <<File(PagePath, page_content)>> \o s.component_files]

\* lines 953-984 and 1186-1208: the assembler answers (else the fallback
\* page); the page comes first, the component files follow
AssembleReturns ==
    /\ gc.pc = "assemble"
    /\ \/ \E raw \in AssemblerAnswers :
            gc' = Assembled(gc, IF raw = <<>> THEN "empty" ELSE "answered",
                            IF raw = <<>> THEN FallbackPage(gc.component_order)
                            ELSE CleanCode(raw))
       \/ gc' = Assembled(gc, "raised", FallbackPage(gc.component_order))
       \* line 965: an answer without choices raises outside the try
       \/ gc' = GcRaise([gc EXCEPT !.assembler = "malformed"], "assembler")
       \/ gc' = GcRaise(gc, "on_status")
    /\ UNCHANGED <<bwr, dts, pmo, es, sp>>

NextGen ==
    \/ GenerateCloneStart
    \/ GenerateCloneSingle
    \/ \E i \in DOMAIN gc.agent : AgentStart(i)
    \/ \E i \in DOMAIN gc.agent : AgentCallRaises(i)
    \/ \E i \in DOMAIN gc.agent : AgentRetry(i)
    \/ \E i \in DOMAIN gc.agent : AgentCallReturns(i)
    \/ GatherReturns
    \/ AssembleReturns

InitGen ==
    /\ gc \in GcInit
    /\ bwr = Idle /\ dts = Idle /\ pmo = Idle /\ es = Idle /\ sp = Idle

SpecGen == InitGen /\ [][NextGen]_vars

(***************************************************************************)
(* scrape_page (services/scraper.py).                                      *)
(*                                                                         *)
(* A value that page.evaluate hands back is a record of its Python type    *)
(* and the number of items it holds.  The HTML of a page is the sequence   *)
(* of its blocks.  The page scraped has styles, content, navigation,       *)
(* interactive groups, fonts and images, so a successful extraction is     *)
(* never empty.                                                            *)
(***************************************************************************)
VIEWPORT_HEIGHT == 900
ScraperMaxScreenshots == 15

Value(type, n) == [type |-> type, n |-> n]

\* lines 760-836: the extraction steps in program order: the local that takes
\* the result, the default= of the _safe_evaluate call, what the script
\* returns on this page, and the type that the log line after the call needs
\* (.get() of a dict; len() and iteration of a list)
ExtractionSteps ==
    << [field |-> "computed_styles", default |-> Value("dict", 0),
        extracted |-> Value("dict", 2), needs |-> "dict"],
       [field |-> "structured_content", default |-> Value("list", 0),
        extracted |-> Value("list", 3), needs |-> "list"],
       [field |-> "nav_structure", default |-> Value("list", 0),
        extracted |-> Value("list", 1), needs |-> "list"],
       [field |-> "interactive_elements", default |-> Value("list", 0),
        extracted |-> Value("list", 1), needs |-> "list"],
       [field |-> "font_data", default |-> Value("dict", 0),
        extracted |-> Value("dict", 2), needs |-> "dict"],
       [field |-> "image_urls", default |-> Value("list", 0),
        extracted |-> Value("list", 2), needs |-> "list"] >>

\* mutant: the default= of the call site is dropped, so the signature's
\* default=None comes back
SafeEvaluateNoDefault(outcome, value, default) ==
    IF outcome = "ok" THEN value ELSE Value("none", 0)

\* lines 622-632: _safe_evaluate: the value of the script, or the default when
\* the evaluation times out or raises
SafeEvaluate(outcome, value, default) ==
    IF outcome = "ok" THEN value ELSE default

\* lines 21-75: _clean_html at block level: scripts, styles, noscripts and
\* comments go; elements and svgs stay
CleanHtml(html) ==
    LET Kept(b) == b \notin {"script", "style", "noscript", "comment"}
    IN  SelectSeq(html, Kept)

RawHtmls == {<<"element">>, <<"script", "element", "comment", "svg", "style">>}

\* document.body.scrollHeight of the pages scraped
TotalHeights ==
    {0, VIEWPORT_HEIGHT \div 2, VIEWPORT_HEIGHT * MaxViewports,
     VIEWPORT_HEIGHT * (ScraperMaxScreenshots + 1)}

SpInit ==
    [ pc               |-> "launch",
      navigated        |-> None,
      raw_html         |-> <<>>,
      html             |-> <<>>,
      step             |-> 0,
      failed           |-> {},
      fields           |-> [i \in 1..Len(ExtractionSteps) |-> Value("none", 0)],
      total_height     |-> 0,
      screenshots      |-> <<>>,
      scroll_positions |-> <<>>,
      scroll_offset    |-> 0,
      stopped          |-> FALSE,
      cause            |-> None ]

\* lines 662-674: the browser and the page; nothing catches a failed launch
SpLaunch ==
    /\ sp.pc = "launch"
    /\ \/ sp' = [sp EXCEPT !.pc = "goto"]
       \/ sp' = [sp EXCEPT !.pc = "raised", !.cause = "launch"]
    /\ UNCHANGED <<bwr, dts, pmo, gc, es>>

\* lines 676-733: page.goto, whose exception is logged and dropped; the
\* overlays and the scrolling go through _safe_evaluate
SpGoto ==
    /\ sp.pc = "goto"
    /\ \E outcome \in {"ok", "timeout"} :
           sp' = [sp EXCEPT !.pc = "content", !.navigated = outcome]
    /\ UNCHANGED <<bwr, dts, pmo, gc, es>>

\* lines 735-749: page.content(): only its timeout is caught and gives the
\* empty HTML; then _clean_html
SpContent ==
    /\ sp.pc = "content"
    /\ \/ \E raw_html \in RawHtmls :
              sp' = [sp EXCEPT !.pc = "extract", !.step = 1, !.raw_html = raw_html,
                               !.html = CleanHtml(raw_html)]
       \/ sp' = [sp EXCEPT !.pc = "extract", !.step = 1, !.raw_html = <<>>,
                           !.html = CleanHtml(<<>>)]
       \/ sp' = [sp EXCEPT !.pc = "raised", !.cause = "content"]
    /\ UNCHANGED <<bwr, dts, pmo, gc, es>>

\* lines 751-836: one extraction step and the log line after it, which reads
\* the value; the nav probing before the nav step (771-810) and the reset
\* after it (821-829) catch every exception and set no local
SpExtract ==
    /\ sp.pc = "extract"
    /\ \E outcome \in {"ok", "throws", "timeout"} :
           LET e == ExtractionSteps[sp.step]
               value == SafeEvaluate(outcome, e.extracted, e.default)
           IN  IF value.type # e.needs
               THEN sp' = [sp EXCEPT !.pc = "raised", !.cause = e.field]
               ELSE sp' = [sp EXCEPT
                        !.fields[sp.step] = value,
                        !.failed = IF outcome = "ok" THEN @ ELSE @ \cup {e.field},
                        !.step = @ + 1,
                        !.pc = IF sp.step = Len(ExtractionSteps)
                               THEN "total_height" ELSE "extract"]
    /\ UNCHANGED <<bwr, dts, pmo, gc, es>>

\* lines 839-844: the page height, VIEWPORT_HEIGHT when it cannot be read
SpTotalHeight ==
    /\ sp.pc = "total_height"
    /\ \E outcome \in {"ok", "throws", "timeout"}, h \in TotalHeights :
           /\ outcome # "ok" => h = 0
           /\ sp' = [sp EXCEPT !.pc = "screenshots",
                               !.total_height = SafeEvaluate(outcome, h, VIEWPORT_HEIGHT)]
    /\ UNCHANGED <<bwr, dts, pmo, gc, es>>

\* mutant: the loop condition without the cap on the number of screenshots
SpScreenshotNoCap ==
    /\ sp.pc = "screenshots"
    /\ sp.scroll_offset < sp.total_height
    /\ \/ sp' = [sp EXCEPT !.screenshots = Append(@, "shot"),
                           !.scroll_positions = Append(@, sp.scroll_offset),
                           !.scroll_offset = @ + VIEWPORT_HEIGHT]
       \/ sp' = [sp EXCEPT !.pc = "close", !.stopped = TRUE]
    /\ UNCHANGED <<bwr, dts, pmo, gc, es>>

\* lines 845-856: one turn of the screenshot loop: the shot is appended with
\* its offset, or the loop stops at the first failure
SpScreenshot ==
    /\ sp.pc = "screenshots"
    /\ sp.scroll_offset < sp.total_height
    /\ Len(sp.screenshots) < ScraperMaxScreenshots
    /\ \/ sp' = [sp EXCEPT !.screenshots = Append(@, "shot"),
                           !.scroll_positions = Append(@, sp.scroll_offset),
                           !.scroll_offset = @ + VIEWPORT_HEIGHT]
       \/ sp' = [sp EXCEPT !.pc = "close", !.stopped = TRUE]
    /\ UNCHANGED <<bwr, dts, pmo, gc, es>>

\* lines 858-873: the loop is over: browser.close() and the snapshot
SpReturn ==
    /\ \/ sp.pc = "close"
       \/ /\ sp.pc = "screenshots"
          /\ ~(/\ sp.scroll_offset < sp.total_height
               /\ Len(sp.screenshots) < ScraperMaxScreenshots)
    /\ sp' = [sp EXCEPT !.pc = "returned"]
    /\ UNCHANGED <<bwr, dts, pmo, gc, es>>

NextScrape ==
    \/ SpLaunch
    \/ SpGoto
    \/ SpContent
    \/ SpExtract
    \/ SpTotalHeight
    \/ SpScreenshot
    \/ SpReturn

InitScrape ==
    /\ sp = SpInit
    /\ bwr = Idle /\ dts = Idle /\ pmo = Idle /\ gc = Idle /\ es = Idle

SpecScrape == InitScrape /\ [][NextScrape]_vars

(***************************************************************************)
(* Claims about build_with_retry, checked under SpecBuild.                 *)
(***************************************************************************)
BwrAllNonZero ==
    \A i \in 1..Len(bwr.exits) : ~bwr.exits[i].timed_out /\ bwr.exits[i].exit_code # 0

BwrAllCompileErrors ==
    \A i \in 1..Len(bwr.exits) : ~bwr.exits[i].timed_out /\ bwr.exits[i].exit_code \in 1..127

\* C1 as stated: when every build invocation returned a non-zero exit code, the
\* build was invoked exactly MAX_BUILD_ATTEMPTS times and success is false.
C1_AsStated ==
    (bwr.pc = "returned" /\ BwrAllNonZero)
        => (bwr.builds = MAX_BUILD_ATTEMPTS /\ ~bwr.build_ok)

\* C1 (amended): when every build invocation returned a non-zero exit code,
\* build_with_retry returns success=false after at most MAX_BUILD_ATTEMPTS build
\* invocations, and after exactly MAX_BUILD_ATTEMPTS when every exit code was
\* below 128 and no fix call raised.
C1_RetryBound ==
    (bwr.pc = "returned" /\ BwrAllNonZero)
        => /\ ~bwr.build_ok
           /\ bwr.builds = Len(bwr.exits)
           /\ bwr.builds <= MAX_BUILD_ATTEMPTS
           /\ (BwrAllCompileErrors /\ ~bwr.fix_raised) => bwr.builds = MAX_BUILD_ATTEMPTS

C1_Witness ==
    /\ bwr.pc = "returned"
    /\ Len(bwr.exits) = 3
    /\ BwrAllCompileErrors
    /\ bwr.builds = 3
    /\ bwr.model_calls = 2

\* C2: once a build invocation has timed out at attempt k, the function logs
\* the timeout and returns success=false with the file set built at attempt k
\* (it has returned, or stands at the log call); the only fix
\* calls and re-uploads are those of the k-1 earlier attempts, and that build is
\* the last one.
C2_TimeoutShortCircuit ==
    bwr.timed_out
        => /\ bwr.pc \in {"timeout_log", "returned"}
           /\ ~bwr.build_ok
           /\ bwr.generated_files = bwr.built_files
           /\ bwr.sandbox_fs = bwr.built_fs
           /\ bwr.builds = bwr.attempt
           /\ bwr.fix_calls = bwr.attempt - 1
           /\ bwr.reuploads = bwr.attempt - 1
           /\ Len(bwr.exits) = bwr.attempt
           /\ bwr.exits[bwr.attempt].timed_out

C2_Witness ==
    /\ bwr.timed_out
    /\ bwr.attempt = 2
    /\ bwr.model_calls = 1
    /\ bwr.pc = "returned"

\* C3: a build that ended with an exit code >= 128 is the last build of the
\* loop: the function has returned success=false and no fix call followed it
\* (the fix calls are those of the earlier attempts).
C3_SignalKillNoFix ==
    \A i \in 1..Len(bwr.exits) :
        (~bwr.exits[i].timed_out /\ bwr.exits[i].exit_code >= 128)
            => /\ i = Len(bwr.exits)
               /\ bwr.pc = "returned"
               /\ ~bwr.build_ok
               /\ bwr.builds = i
               /\ bwr.fix_calls = i - 1

C3_Witness ==
    /\ Len(bwr.exits) = 2
    /\ ~bwr.exits[2].timed_out
    /\ bwr.exits[2].exit_code = 137
    /\ bwr.fix_calls = 1
    /\ bwr.pc = "returned"

\* C4: once the fix call has raised after the failed build of attempt k < 3, the
\* function has returned success=false, no upload or build followed, and the
\* files and deps it returns are those built at attempt k.
C4_FixRaisesStops ==
    bwr.fix_raised
        => /\ bwr.pc = "returned"
           /\ ~bwr.build_ok
           /\ bwr.attempt < MAX_BUILD_ATTEMPTS
           /\ bwr.builds = bwr.attempt
           /\ bwr.reuploads = bwr.attempt - 1
           /\ bwr.generated_files = bwr.built_files
           /\ bwr.sandbox_fs = bwr.built_fs
           /\ bwr.extra_deps = bwr.built_deps

C4_Witness ==
    /\ bwr.fix_raised
    /\ bwr.attempt = 2
    /\ bwr.pc = "returned"
    /\ \E i \in 1..Len(bwr.generated_files) : bwr.generated_files[i].content # 0

(***************************************************************************)
(* Claims about deploy_to_sandbox, checked under SpecDeploy.               *)
(***************************************************************************)
\* [@a-zA-Z0-9._/-], the characters the specification allows in a name
AllowedChars == {"a", "@", ".", "_", "/", "-"}

OnlyAllowedChars(d) == \A i \in 1..Len(d) : d[i] \in AllowedChars

\* the part of the npm command that was interpolated from extra_deps
Interpolated(cmd) == SubSeq(cmd, Len(NpmPrefix) + Len(NpmExtra) + 1, Len(cmd))

\* C5: every character of the dependency names in the npm install command is
\* one of [@a-zA-Z0-9._/-] (names are joined by single spaces); a requested name
\* with any other character is dropped; the safe names are still installed.
C5_OnlySafeDepsInstalled ==
    dts.npm_cmd # <<>>
        => /\ \A i \in 1..Len(Interpolated(dts.npm_cmd)) :
                  Interpolated(dts.npm_cmd)[i] \in AllowedChars \cup {" "}
           /\ \A i \in 1..Len(dts.extra_deps) :
                  ~OnlyAllowedChars(dts.extra_deps[i])
                      => dts.extra_deps[i] \notin Range(dts.safe_deps)
           /\ \A i \in 1..Len(dts.extra_deps) :
                  (OnlyAllowedChars(dts.extra_deps[i]) /\ Len(dts.extra_deps[i]) >= 1
                   /\ dts.extra_deps[i][1] \in FirstClass)
                      => dts.extra_deps[i] \in Range(dts.safe_deps)

IsPiece(s, a, b) ==
    /\ a <= b
    /\ a = 1 \/ s[a - 1] = ","
    /\ b = Len(s) \/ s[b + 1] = ","
    /\ \A i \in a..b : s[i] # ","

NonBlank(s, a, b) == \E i \in a..b : ~IsSpace(s[i])

IsTerminal(ev) == ev.kind = "status" /\ ev.status \in {"done", "error"}

Terminals == {i \in 1..Len(es.events) : IsTerminal(es.events[i])}

IsPrefix(s, t) == Len(s) <= Len(t) /\ SubSeq(t, 1, Len(s)) = s

\* C7: in every run of the clone stream and of the redeploy stream the events
\* form one append-only sequence; it holds at most one terminal event (done or
\* error), nothing follows a terminal event, and a stream that has ended has
\* ended with one.
C7_OneTerminalEvent ==
    /\ [](/\ Cardinality(Terminals) <= 1
          /\ Terminals # {} => (Terminals = {Len(es.events)} /\ es.pc = "closed")
          /\ es.pc = "closed" => Terminals # {})
    /\ [][IsPrefix(es.events, es'.events)]_vars

C7_Witness ==
    /\ es.pc = "closed"
    /\ es.route = "clone"
    /\ es.attempt = 3
    /\ es.events[Len(es.events)].status = "done"
    /\ es.events[Len(es.events)].preview_url = None

\* C8: when scraping failed, the generation credential is missing or the
\* generation call failed, the stream has ended with the error event, which
\* carries a message, and holds no done event.
C8_FatalErrorsEndInError ==
    es.failure \in {"scrape", "credential", "generation"}
        => /\ es.pc = "closed"
           /\ es.events[Len(es.events)] = ErrorEvent
           /\ es.events[Len(es.events)].message
           /\ \A i \in 1..Len(es.events) : es.events[i].status # "done"

C8_Witness ==
    /\ es.failure = "generation"
    /\ es.pc = "closed"
    /\ es.screenshots = 2
    /\ es.events[Len(es.events)].status = "error"

(***************************************************************************)
(* Claims about the parallel generation, checked under SpecGen.            *)
(***************************************************************************)
Failed(i) == gc.agent[i].outcome \in {"gave_up", "exception"}

\* the files of the result that agent i wrote
FilesBy(i) ==
    {k \in 1..Len(gc.files) : Statement(ToString(i)) \in Range(gc.files[k].content)}

\* C9: an agent that fails for good (both model calls raised, or its task
\* raised) does not stop generate_clone_parallel: the call never raises because
\* of an agent, it goes on only when every agent has ended, the failed agent
\* contributes no file, and every component file (any path but app/page.tsx)
\* in the result of another agent is in the returned files, under its path or
\* its renamed path.
C9_FailedAgentLeavesGap ==
    /\ gc.cause # "agent"
    /\ gc.pc \in {"assemble", "returned"} /\ gc.num_agents > 1 => AllFinished(gc)
    /\ gc.pc = "returned" /\ gc.num_agents > 1 =>
         \A i \in DOMAIN gc.agent :
            /\ Failed(i) => FilesBy(i) = {}
            /\ ~Failed(i) =>
                 \A k \in 1..Len(gc.agent[i].files) :
                    LET f == gc.agent[i].files[k]
                    IN  f.path # PagePath =>
                          \E m \in FilesBy(i) :
                             /\ gc.files[m].path \in {f.path, RenamedPath(f.path, i - 1)}
                             /\ gc.files[m].content
                                    = RenamedCode(f.path, i - 1, f.content)
                                \/ gc.files[m].content = f.content

C9_Witness ==
    /\ gc.pc = "returned"
    /\ gc.num_agents = 3
    /\ gc.agent[1].outcome = "result" /\ Len(gc.agent[1].files) = 2
    /\ gc.agent[2].outcome = "exception"
    /\ gc.agent[3].outcome = "result" /\ gc.agent[3].files # <<>>
    /\ \E k \in 1..Len(gc.files) : gc.files[k].path = RenamedPath(NavbarPath, 2)

SumCalls(s) ==
    LET RECURSIVE Sum(_)
        Sum(k) == IF k = 0 THEN 0 ELSE s.agent[k].calls + Sum(k - 1)
    IN  Sum(Len(s.agent))

\* C10: a section agent issues at most two model calls, the second only after
\* the first raised; an agent whose second call raised returns no file; N
\* agents issue at most 2N calls and the assembler at most one; and a step
\* that issues a call of agent i starts from agent i sleeping after its own
\* failed first call (or not yet started) and changes no other agent.
C10_RetryOncePerAgent ==
    /\ [](/\ \A i \in DOMAIN gc.agent :
                /\ gc.agent[i].calls <= 2
                /\ gc.agent[i].calls = 2 => gc.agent[i].first_raised
                /\ gc.agent[i].outcome = "gave_up" =>
                      gc.agent[i].calls = 2 /\ gc.agent[i].files = <<>>
          /\ SumCalls(gc) <= 2 * gc.num_agents
          /\ gc.assembler_calls <= 1)
    /\ [][\A i \in DOMAIN gc.agent :
             (i \in DOMAIN gc'.agent /\ gc'.agent[i].calls # gc.agent[i].calls) =>
                /\ gc.agent[i].pc \in {"ready", "sleep"}
                /\ gc.agent[i].pc = "sleep" => gc.agent[i].first_raised
                /\ \A j \in DOMAIN gc.agent \ {i} : gc'.agent[j] = gc.agent[j]]_vars

C10_Witness ==
    /\ gc.pc = "returned"
    /\ gc.num_agents = 3
    /\ gc.agent[1].calls = 2 /\ gc.agent[1].outcome = "gave_up"
    /\ gc.agent[2].calls = 1 /\ gc.agent[2].outcome = "result"
    /\ gc.agent[3].calls = 2 /\ gc.agent[3].outcome = "result"
    /\ gc.assembler_calls = 1

\* the name part of a path: "components/Navbar2.tsx" gives Navbar2
BaseName(path) == SubSeq(path, 2, Len(path) - 1)

\* C11: the files stitched from the agent results have pairwise different
\* paths, and a stitched file that exports a default function exports it
\* under the name of its path.
C11_StitchedPathsDistinct ==
    gc.pc \in {"assemble", "returned"} =>
        /\ \A a, b \in 1..Len(gc.component_files) :
              a # b => gc.component_files[a].path # gc.component_files[b].path
        /\ \A a \in 1..Len(gc.component_files) :
              \A k \in 1..Len(gc.component_files[a].content) :
                 gc.component_files[a].content[k].kind = "export_fn" =>
                    gc.component_files[a].content[k].payload
                       = BaseName(gc.component_files[a].path)

\* the payloads of the lines of one kind, in order
PayloadsOf(content, kind) ==
    LET OfKind(l) == l.kind = kind
        sel == SelectSeq(content, OfKind)
    IN  [k \in 1..Len(sel) |-> sel[k].payload]

Manifest == [k \in 1..Len(gc.component_order) |-> gc.component_order[k].name]

\* C12: once every agent has finished, generate_clone_parallel does not fail
\* because of the assembler: it returns files that start with app/page.tsx,
\* and when the assembler call raised, answered without text or answered
\* without choices, that page is the fallback, which imports and renders the
\* components of the manifest once each, in manifest order.
C12_RootPageAlways ==
    /\ gc.cause # "assembler"
    /\ gc.pc = "returned" /\ gc.num_agents > 1 =>
          /\ gc.files # <<>> /\ gc.files[1].path = PagePath
          /\ gc.assembler \in {"raised", "empty", "malformed"} =>
                /\ PayloadsOf(gc.files[1].content, "import_default") = Manifest
                /\ PayloadsOf(gc.files[1].content, "jsx") = Manifest

\* C13: generate_clone runs 1 agent for 1 screenshot, 2 agents for 2 or 3
\* screenshots and 3 agents for more than 3, never more than
\* MAX_PARALLEL_AGENTS.
C13_AgentCount ==
    gc.pc \in {"single", "agents", "assemble"} =>
        /\ gc.n = 1 => gc.num_agents = 1
        /\ gc.n \in 2..3 => gc.num_agents = 2
        /\ gc.n > 3 => gc.num_agents = 3
        /\ gc.num_agents <= MAX_PARALLEL_AGENTS
        /\ gc.pc = "agents" => Len(gc.agent) = gc.num_agents

C13_Witness ==
    /\ gc.pc = "agents"
    /\ gc.n = 3
    /\ Len(gc.agent) = 2
    /\ gc.agent[2].pc = "call"

RECURSIVE Concat(_)
Concat(ss) == IF ss = <<>> THEN <<>> ELSE Head(ss) \o Concat(Tail(ss))

\* C14: the slices of the agents, in agent order, add up to the screenshots in
\* their order, and the position slices to the positions; the position slice of
\* an agent is as long as its screenshot slice; the sizes never grow from one
\* agent to the next and differ by at most one; every agent has a screenshot;
\* three screenshots are split into the first two and the third.
C14_EvenContiguousSlices ==
    gc.pc \in {"agents", "assemble"} =>
        /\ Concat([a \in 1..gc.num_agents |-> gc.agent[a].section_screenshots])
              = gc.screenshots
        /\ Concat([a \in 1..gc.num_agents |-> gc.agent[a].section_positions])
              = Positions(gc.scroll_positions, gc.n)
        /\ \A a \in 1..gc.num_agents :
              /\ Len(gc.agent[a].section_positions) = Len(gc.agent[a].section_screenshots)
              /\ Len(gc.agent[a].section_screenshots) >= 1
              /\ \A b \in a..gc.num_agents :
                    Len(gc.agent[a].section_screenshots)
                       - Len(gc.agent[b].section_screenshots) \in {0, 1}
        /\ gc.n = 3 => /\ gc.agent[1].section_screenshots = <<1, 2>>
                       /\ gc.agent[2].section_screenshots = <<3>>

C14_Witness ==
    /\ gc.pc = "agents"
    /\ gc.n = 5
    /\ gc.agent[1].section_positions = <<0, 900>>
    /\ gc.agent[2].section_screenshots = <<3, 4>>
    /\ gc.agent[3].section_screenshots = <<5>>

\* C15: in a parallel generation the prompt of agent 1, and of no other agent,
\* says it owns the header; the prompt of the last agent, and of no other,
\* says it owns the footer; every prompt forbids what the agent does not own,
\* so the agents between the first and the last are forbidden both; no prompt
\* gives both.
C15_HeaderFooterOwnership ==
    gc.pc \in {"agents", "assemble"} =>
        /\ {a \in 1..gc.num_agents : gc.agent[a].prompt.owns_header} = {1}
        /\ {a \in 1..gc.num_agents : gc.agent[a].prompt.owns_footer} = {gc.num_agents}
        /\ \A a \in 1..gc.num_agents :
              /\ gc.agent[a].prompt.no_header = ~gc.agent[a].prompt.owns_header
              /\ gc.agent[a].prompt.no_footer = ~gc.agent[a].prompt.owns_footer
              /\ ~(gc.agent[a].prompt.owns_header /\ gc.agent[a].prompt.owns_footer)

C15_Witness ==
    /\ gc.pc = "agents"
    /\ gc.num_agents = 3
    /\ gc.agent[2].prompt.no_header /\ gc.agent[2].prompt.no_footer
    /\ gc.agent[3].prompt.owns_footer
    /\ gc.agent[3].pc = "finished"

\* C16: with one screenshot, an exception of the model call ends generate_clone
\* with that exception and without a result; with several agents, an agent
\* whose calls or whose task raised never makes the generation raise for it.
C16_SingleAgentErrorPropagates ==
    /\ gc.cause = "model_call" =>
          gc.pc = "raised" /\ gc.files = <<>> /\ gc.num_agents = 1
    /\ gc.pc = "raised" /\ gc.num_agents > 1 => gc.cause \in {"on_status", "assembler"}

C16_Witness ==
    /\ gc.pc = "raised"
    /\ gc.cause = "model_call"
    /\ gc.n = 1
    /\ gc.single_calls = 1


(***************************************************************************)
(* Claims about the parsers of model output, checked under SpecParse.      *)
(***************************************************************************)

Markers(raw, kind) == Cardinality({k \in 1..Len(raw) : raw[k].kind = kind})

\* C17: parse_multi_file_output applied to a text with fewer than two
\* file-boundary markers (of either style) returns exactly one file, at
\* app/page.tsx, whose content is the cleaned text left after the
\* dependency declaration was taken out.
C17_SingleFileMode ==
    (/\ pmo.pc = "parsed"
     /\ Markers(pmo.rest, "file_new") < 2
     /\ Markers(pmo.rest, "file_old") < 2)
    => /\ Len(pmo.files) = 1
       /\ pmo.files[1].path = PagePath
       /\ pmo.files[1].content = CleanCode(StripLines(pmo.rest))
       /\ \A k \in 1..Len(pmo.rest) :
              pmo.rest[k].kind \in {"export_fn", "file_new", "file_old"}
              => \E j \in 1..Len(pmo.files[1].content) :
                     pmo.files[1].content[j] = pmo.rest[k]

\* a text with exactly one marker was parsed into the page file, which
\* still holds the marker and the component below it
C17_Witness ==
    /\ pmo.pc = "parsed"
    /\ Markers(pmo.raw, "file_new") = 1
    /\ Markers(pmo.raw, "file_old") = 0
    /\ Len(pmo.files) = 1
    /\ pmo.files[1].path = PagePath
    /\ \E j \in 1..Len(pmo.files[1].content) :
           pmo.files[1].content[j] = ExportFn(<<"Navbar">>)

\* C18: parsing of model output never raises: whatever the text, the
\* parser called on it returns a value.
C18_ParsingNeverRaises == pmo.pc # "raised"

\* C19: when the model output holds no code, only prose,
\* parse_multi_file_output returns an empty file list.
C19_NoCodeNoFiles ==
    (/\ pmo.pc = "parsed"
     /\ \A k \in 1..Len(pmo.raw) : pmo.raw[k] \in {Prose, Blank}
     /\ \E k \in 1..Len(pmo.raw) : pmo.raw[k] = Prose)
    => pmo.files = <<>>


(***************************************************************************)
(* Claims about scrape_page, checked under SpecScrape.                     *)
(***************************************************************************)

FieldOf(name) == CHOOSE i \in 1..Len(ExtractionSteps) : ExtractionSteps[i].field = name

ShotsDue(total_height) ==
    LET due == (total_height + VIEWPORT_HEIGHT - 1) \div VIEWPORT_HEIGHT
    IN  IF due > ScraperMaxScreenshots THEN ScraperMaxScreenshots ELSE due

\* C20: in scrape_page, when the style, content-outline, nav-structure,
\* interactive-element, font or image extraction throws or times out, that
\* field takes its empty default and the later steps still run: the scrape
\* does not raise once the HTML is captured, a failed step is followed by
\* the next step, and the returned snapshot has the cleaned HTML, every
\* screenshot that the screenshot loop itself did not fail on, the default
\* for each failed field and the extracted value for every other field.
C20_ExtractionFailureContained ==
    /\ [](/\ sp.pc = "raised" => sp.cause \in {"launch", "content"}
          /\ sp.pc \in {"extract", "total_height", "screenshots", "close", "returned"}
             => /\ sp.html = CleanHtml(sp.raw_html)
                /\ \A i \in 1..Len(ExtractionSteps) :
                       i < sp.step =>
                           sp.fields[i] = IF ExtractionSteps[i].field \in sp.failed
                                          THEN ExtractionSteps[i].default
                                          ELSE ExtractionSteps[i].extracted
          /\ sp.pc = "returned"
             => /\ Len(sp.screenshots) = Len(sp.scroll_positions)
                /\ ~sp.stopped => Len(sp.screenshots) = ShotsDue(sp.total_height))
    /\ [][sp.pc = "extract" /\ sp'.failed # sp.failed
          => /\ sp'.step = sp.step + 1
             /\ sp'.pc = IF sp.step < Len(ExtractionSteps)
                         THEN "extract" ELSE "total_height"]_vars

\* the nav extraction failed and nothing else: the snapshot is returned with
\* the cleaned HTML, two screenshots, an empty nav structure and the images
C20_Witness ==
    /\ sp.pc = "returned"
    /\ sp.failed = {"nav_structure"}
    /\ sp.fields[FieldOf("nav_structure")] = Value("list", 0)
    /\ sp.fields[FieldOf("image_urls")] = Value("list", 2)
    /\ sp.html = <<"element", "svg">>
    /\ Len(sp.screenshots) = 2


(***************************************************************************)
(* Further claims about the event streams, checked under SpecStream.       *)
(***************************************************************************)

\* C21: a navigation timeout while the target URL loads does not fail the
\* clone request: the generator suspended at page.goto never ends the
\* stream, it goes on with the extraction.
C21_NavTimeoutNotFatal == [][es.pc = "goto" => es'.pc # "closed"]_vars

\* C22: when sandbox creation returns null the request is not failed:
\* nothing is uploaded or executed, and the stream has ended with the done
\* event, a null preview URL in it, and no error event.
C22_NoSandboxIsDone ==
    es.sandbox = None
    => /\ es.pc = "closed"
       /\ es.events # <<>>
       /\ es.events[Len(es.events)].status = "done"
       /\ es.events[Len(es.events)].preview_url = None
       /\ ErrorEvent \notin Range(es.events)


\* the run of the same request with persistence unconfigured, or with the
\* insert failing: no clone id, no row written, and the clone_id field of a
\* final done event empty
WithoutDb(s) ==
    [s EXCEPT !.clone_id = None,
              !.db = <<>>,
              !.events = [i \in DOMAIN @ |->
                             IF i = Len(@) /\ @[i].status = "done"
                             THEN [@[i] EXCEPT !.clone_id = None]
                             ELSE @[i]]]

\* C23: the progress events of a clone request do not depend on persistence:
\* a run with the database working and the run with the same scrape, model and
\* sandbox outcomes without a database emit the same events, the clone_id
\* field of the final done event excepted.  Stated as an unwinding: the run
\* without a database starts where the run with one starts, and for every
\* step of the run with a database the same step, with the same outcome,
\* takes the run without one to the state with the same events.
C23_EventsIndependentOfDb ==
    /\ (es.route = "clone" => WithoutDb(es) \in EsInit)
    /\ [][es.route = "clone" =>
          /\ EsStartAt(es, es') => EsStartAt(WithoutDb(es), WithoutDb(es'))
          /\ EsScrapeStepAt(es, es') => EsScrapeStepAt(WithoutDb(es), WithoutDb(es'))
          /\ EsScreenshotAt(es, es') => EsScreenshotAt(WithoutDb(es), WithoutDb(es'))
          /\ EsScrapeFailsAt(es, es') => EsScrapeFailsAt(WithoutDb(es), WithoutDb(es'))
          /\ EsScrapeDoneAt(es, es') => EsScrapeDoneAt(WithoutDb(es), WithoutDb(es'))
          /\ EsCallAiFailsAt(es, es') => EsCallAiFailsAt(WithoutDb(es), WithoutDb(es'))
          /\ EsCallAiReturnsAt(es, es') => EsCallAiReturnsAt(WithoutDb(es), WithoutDb(es'))
          /\ EsCreateSandboxAt(es, es') => EsCreateSandboxAt(WithoutDb(es), WithoutDb(es'))
          /\ EsMkdirAt(es, es') => EsMkdirAt(WithoutDb(es), WithoutDb(es'))
          /\ EsUploadTemplateAt(es, es') => EsUploadTemplateAt(WithoutDb(es), WithoutDb(es'))
          /\ EsUploadGeneratedAt(es, es') => EsUploadGeneratedAt(WithoutDb(es), WithoutDb(es'))
          /\ EsNpmAt(es, es') => EsNpmAt(WithoutDb(es), WithoutDb(es'))
          /\ EsReuploadAt(es, es') => EsReuploadAt(WithoutDb(es), WithoutDb(es'))
          /\ EsBuildAt(es, es') => EsBuildAt(WithoutDb(es), WithoutDb(es'))
          /\ EsFixAt(es, es') => EsFixAt(WithoutDb(es), WithoutDb(es'))
          /\ EsStartServerAt(es, es') => EsStartServerAt(WithoutDb(es), WithoutDb(es'))
          /\ EsPreviewAt(es, es') => EsPreviewAt(WithoutDb(es), WithoutDb(es'))
       ]_vars

C23_Witness ==
    /\ es.route = "clone"
    /\ es.clone_id = "id"
    /\ es.pc = "closed"
    /\ es.db = <<"generating", "deploying", "done">>
    /\ es.events[Len(es.events)].clone_id = "id"
    /\ WithoutDb(es).events # es.events
    /\ es.sandbox = "created"

\* C24: sandbox creation is started at the beginning of the clone pipeline:
\* while the stream is scraping or waits for the generation call, the
\* sandbox call has been issued (it is in flight or has returned).
C24_SandboxStartedAtStart ==
    (/\ es.route = "clone"
     /\ \/ StageIndex(es.pc) # 0
        \/ es.pc \in {"screenshot", "close", "call_ai"})
    => es.sandbox # "pending"

(***************************************************************************)
(* Further claims about build_with_retry, checked under SpecBuild.         *)
(***************************************************************************)

\* C25: in build_with_retry a build at an attempt k > 1 runs after the k-1
\* re-uploads of the earlier retries and of this one, and at that moment the
\* sandbox holds, at every generated path, the content of the current file
\* set, which is the file set the build is run on.
C25_FullReuploadBeforeRetry ==
    (bwr.pc = "build" /\ bwr.attempt > 1)
    => /\ bwr.reuploads = bwr.attempt - 1
       /\ bwr.built_files = bwr.generated_files
       /\ \A i \in 1..Len(bwr.generated_files) :
              /\ bwr.generated_files[i].path \in DOMAIN bwr.sandbox_fs
              /\ bwr.sandbox_fs[bwr.generated_files[i].path]
                     = bwr.generated_files[i].content

\* the second build runs on two files, the second of them changed by the fix
C25_Witness ==
    /\ bwr.pc = "build"
    /\ bwr.attempt = 2
    /\ Len(bwr.generated_files) = 2
    /\ bwr.generated_files[2].content = 1
    /\ bwr.sandbox_fs[bwr.generated_files[2].path] = 1

\* C26 as stated: every build attempt, retries included, runs upload, then
\* dependency install, then build: when the build of attempt k runs, k
\* installs have run.
C26_AsStated == bwr.pc = "build" => bwr.installs = bwr.attempt

\* C26: the first build follows the upload and the one install of
\* deploy_to_sandbox; a retry runs the re-upload and then the build, with no
\* install; a fix hands back no dependency, so every build runs with the
\* dependency names that the one install was given.
C26_RetryUploadsThenBuilds ==
    bwr.pc = "build"
    => /\ bwr.installs = 1
       /\ bwr.builds = bwr.attempt
       /\ bwr.reuploads = bwr.attempt - 1
       /\ Range(bwr.built_deps) = Range(bwr.installed_for)

\* the third build, after two fixes, of a project with two dependencies
C26_Witness ==
    /\ bwr.pc = "build"
    /\ bwr.attempt = 3
    /\ bwr.fix_calls = 2
    /\ bwr.reuploads = 2
    /\ Range(bwr.built_deps) = {"d1", "d2"}

C28_ModelCallsRetried ==
    (es.pc # "idle" /\ es.cause \in {"http_status", "request_error"}) => es.model_calls >= 2

(***************************************************************************)
(* Further claims about the parsers, checked under SpecParse.              *)
(***************************************************************************)

\* C29: in every file that parse_multi_file_output returns (each went through
\* _clean_code), an icon of the known set that is used as a JSX tag is named
\* in an import of the file.
C29_IconsImported ==
    pmo.pc = "parsed"
    => \A f \in 1..Len(pmo.files) :
           \A t \in Range(IconOrder) :
               (\E k \in 1..Len(pmo.files[f].content) :
                    pmo.files[f].content[k] = Jsx(t))
               => \E k \in 1..Len(pmo.files[f].content) :
                      /\ pmo.files[f].content[k].kind = "import"
                      /\ t \in Range(Tail(pmo.files[f].content[k].payload))

(***************************************************************************)
(* Further claims about scrape_page, checked under SpecScrape.             *)
(***************************************************************************)

\* C30: when the navigation failed and no HTML was captured, scrape_page
\* does not return a snapshot.
C30_NoHtmlNoSnapshot ==
    (sp.navigated = "timeout" /\ sp.raw_html = <<>>) => sp.pc # "returned"

(***************************************************************************)
(* A claim about the screenshot loop of scrape_page, checked under         *)
(* SpecScrape.                                                             *)
(***************************************************************************)

\* C31: from the start of the screenshot loop of scrape_page on, screenshots
\* and scroll_positions have the same length, at most MAX_SCREENSHOTS; the
\* offsets are 0, V, 2V, ... with V the viewport height, strictly increasing
\* and each below the page height; when no capture failed the snapshot has
\* min(MAX_SCREENSHOTS, ceil(total_height / V)) screenshots; and the failed
\* capture that stops the walk keeps the screenshots taken so far.
C31_ScreenshotWalk ==
    /\ [](sp.pc \in {"screenshots", "close", "returned"}
          => /\ Len(sp.screenshots) = Len(sp.scroll_positions)
             /\ Len(sp.screenshots) <= ScraperMaxScreenshots
             /\ \A i \in 1..Len(sp.scroll_positions) :
                    /\ sp.scroll_positions[i] = (i - 1) * VIEWPORT_HEIGHT
                    /\ sp.scroll_positions[i] < sp.total_height
                    /\ i > 1 => sp.scroll_positions[i - 1] < sp.scroll_positions[i]
             /\ (sp.pc = "returned" /\ ~sp.stopped)
                => Len(sp.screenshots) = ShotsDue(sp.total_height))
    /\ [][sp.pc \in {"screenshots", "close"}
          => /\ SubSeq(sp'.screenshots, 1, Len(sp.screenshots)) = sp.screenshots
             /\ SubSeq(sp'.scroll_positions, 1, Len(sp.scroll_positions))
                    = sp.scroll_positions
             /\ sp'.stopped # sp.stopped
                => /\ sp'.screenshots = sp.screenshots
                   /\ sp'.scroll_positions = sp.scroll_positions
                   /\ sp'.pc = "close"]_vars

\* a page taller than MAX_SCREENSHOTS viewports: the walk ends at the cap
C31_Witness ==
    /\ sp.pc = "returned"
    /\ ~sp.stopped
    /\ sp.total_height > ScraperMaxScreenshots * VIEWPORT_HEIGHT
    /\ Len(sp.screenshots) = ScraperMaxScreenshots
    /\ sp.scroll_positions[ScraperMaxScreenshots]
           = (ScraperMaxScreenshots - 1) * VIEWPORT_HEIGHT

(***************************************************************************)
(* Further claims about generate_clone_parallel, checked under SpecGen.    *)
(***************************************************************************)

\* C32: in generate_clone_parallel the assembler call is issued only after
\* every section agent has reached a final outcome (a result, the empty
\* result after its retry, or an exception): the step that stitches and
\* issues the call is taken with every agent finished, the stitched files are
\* the stitching of the agents' final results, and no agent takes a step
\* afterwards.
C32_AssemblerAfterAllAgents ==
    /\ [](gc.pc # "idle" /\ gc.assembler_calls > 0
          => /\ AllFinished(gc)
             /\ \A i \in DOMAIN gc.agent :
                    gc.agent[i].outcome \in {"result", "gave_up", "exception"}
             /\ gc.component_files = StitchResults(CleanResults(gc)).files)
    /\ [][gc'.assembler_calls # gc.assembler_calls
          => /\ AllFinished(gc)
             /\ gc'.agent = gc.agent
             /\ gc'.component_files = StitchResults(CleanResults(gc)).files]_vars
    /\ [][gc.assembler_calls > 0 => gc'.agent = gc.agent]_vars

\* three agents, one that answered at once, one that answered on its second
\* call and one that gave up; the assembler call has been issued
C32_Witness ==
    /\ gc.pc = "assemble"
    /\ gc.assembler_calls = 1
    /\ gc.num_agents = 3
    /\ gc.agent[1].outcome = "result" /\ gc.agent[1].calls = 1
    /\ gc.agent[2].outcome = "result" /\ gc.agent[2].calls = 2
    /\ gc.agent[3].outcome = "gave_up"
    /\ gc.component_files # <<>>

IsComponentsPath(path) == path[1] = "components/"

\* C33: every component file that a section agent emits under a new-style
\* file marker with a components/ path is in the stitched files of
\* generate_clone_parallel, under its path or its renamed path, also when
\* the answer of the agent holds one file only.
C33_EmittedComponentsStitched ==
    (gc.pc \in {"assemble", "returned"} /\ gc.num_agents > 1)
    => \A i \in DOMAIN gc.agent :
          gc.agent[i].outcome = "result"
          => \A k \in 1..Len(gc.agent[i].raw) :
                LET l == gc.agent[i].raw[k]
                IN  (l.kind = "file_new" /\ IsComponentsPath(l.payload))
                    => \E m \in 1..Len(gc.component_files) :
                          gc.component_files[m].path
                              \in {l.payload, RenamedPath(l.payload, i - 1)}

(***************************************************************************)
(* A claim about what build_with_retry returns, checked under SpecBuild.   *)
(***************************************************************************)

\* C34: when build_with_retry has returned, the file set it returns is the
\* file set of the last build invocation, and the sandbox holds the content
\* of each of its files, as it did when that build ran; success is true only
\* if that last build ended with exit code 0.
C34_ReturnedFilesWereBuilt ==
    bwr.pc = "returned"
    => /\ bwr.builds >= 1
       /\ Len(bwr.exits) = bwr.builds
       /\ bwr.generated_files = bwr.built_files
       /\ bwr.sandbox_fs = bwr.built_fs
       /\ \A i \in 1..Len(bwr.generated_files) :
              bwr.sandbox_fs[bwr.generated_files[i].path] = bwr.generated_files[i].content
       /\ bwr.build_ok => bwr.exits[Len(bwr.exits)] = Outcome(FALSE, 0)

\* the first build failed, the fix changed a file, the second build passed
C34_Witness ==
    /\ bwr.pc = "returned"
    /\ bwr.build_ok
    /\ bwr.builds = 2
    /\ bwr.fix_calls = 1
    /\ \E i \in 1..Len(bwr.generated_files) : bwr.generated_files[i].content = 1
    /\ bwr.exits[1].exit_code = 1

(***************************************************************************)
(* Further claims about the clone event stream, checked under SpecStream.  *)
(***************************************************************************)

\* scraping and the generation call of the clone request have succeeded
GenerationSucceeded(s) ==
    /\ s.route = "clone"
    /\ s.model_calls >= 1
    /\ s.pc # "call_ai"
    /\ s.failure = None

\* C35: once scraping and generation have succeeded, the clone stream holds
\* no error event, and when it has ended its last event is the done event
\* with the code and the file map: so it is when every build attempt failed,
\* when the fix call failed, and when the deployment raised, in which case
\* the preview URL is null.
C35_DoneAfterGeneration ==
    GenerationSucceeded(es)
    => /\ \A i \in 1..Len(es.events) : es.events[i].status # "error"
       /\ es.pc = "closed"
          => /\ es.events[Len(es.events)] = DoneEvent(es.preview_url, TRUE, es.clone_id)
             /\ es.deploy_error => es.preview_url = None

\* the first build failed, the fix call failed, and starting the server raised
C35_Witness ==
    /\ GenerationSucceeded(es)
    /\ es.pc = "closed"
    /\ es.fix_failed
    /\ es.deploy_error
    /\ ~es.build_ok
    /\ es.events[Len(es.events)].status = "done"
    /\ es.events[Len(es.events)].preview_url = None

\* the status events of a stream, in order
StatusesOf(events) ==
    LET IsStatus(e) == e.kind = "status"
        sel == SelectSeq(events, IsStatus)
    IN  [i \in 1..Len(sel) |-> sel[i].status]

\* the phases in their order; fixing belongs to the deploying phase
PhaseRank(st) ==
    CASE st = "scraping"   -> 1
      [] st = "generating" -> 2
      [] st = "deploying"  -> 3
      [] st = "fixing"     -> 3
      [] st = "done"       -> 4
      [] st = "error"      -> 4

NeverBack(sts) == \A i \in 1..(Len(sts) - 1) : PhaseRank(sts[i]) <= PhaseRank(sts[i + 1])

\* the failed builds after which the loop of the route asks for a fix
FailedBeforeLast(exits) ==
    {i \in 1..Len(exits) : exits[i] # 0 /\ i < MAX_BUILD_ATTEMPTS}

\* C36 as stated: a 'fixing' status is always followed by another build
\* attempt.
C36_AsStated == [][es.pc = "fix" => es'.pc \in {"reupload", "build"}]_vars

\* C36: the status events of a clone request never go back to an earlier
\* phase: scraping, generating, deploying, then done or error; a 'fixing'
\* status comes once for each failed build that is not the last attempt,
\* right after a 'deploying' status, and the next status after it is
\* 'deploying': that of the next build attempt when the fix call returned,
\* that of the server start when the fix call failed.  The statuses written
\* to the clone record, after the 'scraping' of the insert, follow the same
\* order: generating, deploying, then done or error.
C36_PhasesNeverGoBack ==
    /\ [](es.route = "clone"
          => LET sts == StatusesOf(es.events)
             IN  /\ NeverBack(sts)
                 /\ es.pc # "start" => sts[1] = "scraping"
                 /\ NeverBack(<<"scraping">> \o es.db)
                 /\ \A i \in 1..Len(es.db) :
                        es.db[i] = "done" => i = Len(es.db) /\ es.pc = "closed"
                 /\ Cardinality({i \in 1..Len(sts) : sts[i] = "fixing"})
                        = Cardinality(FailedBeforeLast(es.exits))
                 /\ \A i \in 1..Len(sts) :
                        sts[i] = "fixing"
                        => /\ i > 1 /\ sts[i - 1] = "deploying"
                           /\ i < Len(sts) => sts[i + 1] = "deploying"
                           /\ i = Len(sts) => es.pc = "fix")
    /\ [][es.pc = "fix"
          => /\ es'.pc \in {"reupload", "build", "start_server"}
             /\ es'.pc = "start_server" <=> es'.fix_failed
             /\ StatusesOf(es'.events) = Append(StatusesOf(es.events), "deploying")]_vars

\* two failed builds, two fixes, a third build that passes, and the preview
C36_Witness ==
    /\ es.route = "clone"
    /\ es.pc = "closed"
    /\ es.clone_id = "id"
    /\ es.exits = <<1, 127, 0>>
    /\ StatusesOf(es.events)
           = << "scraping", "generating", "deploying", "deploying", "deploying",
                "deploying", "fixing", "deploying", "fixing", "deploying",
                "deploying", "done" >>
    /\ es.db = <<"generating", "deploying", "done">>

(***************************************************************************)
(* Claims about the commands and the tasks of build_with_retry, checked    *)
(* under SpecBuild.                                                        *)
(***************************************************************************)

\* C37: at most one exec command of a request is executing in the sandbox at
\* any time; in particular the build command is not started while the install
\* command is still executing, also after the install timed out.
C37_OneExecAtATime == Cardinality(bwr.running) <= 1

\* C38: no heartbeat message of an attempt is logged after the outcome
\* message of that attempt (build succeeded, build failed, build timed out),
\* and once build_with_retry has returned its heartbeat task logs no more.
C38_NoLateHeartbeat ==
    /\ ~bwr.late_heartbeat
    /\ bwr.pc = "returned" => bwr.heartbeat_task # "sleep"

(***************************************************************************)
(* A claim about the shell commands of deploy_to_sandbox, checked under    *)
(* SpecDeploy.                                                             *)
(***************************************************************************)

\* C39: every string that comes from the model and is put into a shell
\* command of the sandbox has passed a safe-character check: the dependency
\* names of the npm install command have passed the pattern of the filter,
\* and the parent directories of the generated paths in the mkdir command
\* are made of the safe characters only.
C39_InterpolatedStringsChecked ==
    /\ \A i \in 1..Len(dts.safe_deps) : IsSafeDep(dts.safe_deps[i])
    /\ \A d \in dts.mkdir_parents : OnlyAllowedChars(d)

(***************************************************************************)
(* A claim that compares the build loop of the /clone route with           *)
(* build_with_retry, checked under SpecStream on the exit codes the loop   *)
(* of the route saw.                                                       *)
(***************************************************************************)

\* C40: the loop of the /clone route decides as build_with_retry does on the
\* same build outcomes: a build that ended with an exit code >= 128 is the
\* last build of the loop and no fix call follows it, a fix call is awaited
\* only after a failed build that is not the last attempt, there are at most
\* MAX_BUILD_ATTEMPTS builds, and the build counts as succeeded exactly when
\* the last build returned exit code 0.
C40_RouteDecidesAsBuildWithRetry ==
    /\ \A i \in 1..Len(es.exits) : es.exits[i] >= 128 => i = Len(es.exits)
    /\ es.pc = "fix"
          => /\ Len(es.exits) \in 1..(MAX_BUILD_ATTEMPTS - 1)
             /\ es.exits[Len(es.exits)] \in 1..127
    /\ Len(es.exits) <= MAX_BUILD_ATTEMPTS
    /\ es.build_ok <=> (Len(es.exits) >= 1 /\ es.exits[Len(es.exits)] = 0)

====
